---- MODULE Spec2Model ----
(***************************************************************************)
(* A model of DEV_DB_Cloner: the configuration store (config_manager.py),  *)
(* the anonymization functions (data_anonymizer.py) and the replication    *)
(* run (db_replicator.py).                                                 *)
(*                                                                         *)
(* Python values are modelled as follows.  None is the string None.  A     *)
(* dict is a function whose DOMAIN is its key set.  A project name is a    *)
(* sequence of one-character strings, so that str.replace can be computed. *)
(* A rule entry of the PII map is a sequence: a well-formed entry is the   *)
(* pair <<function_name, seed_column>>.                                    *)
(*                                                                         *)
(* The surrogate primary key of SensitiveColumn, Project.description and   *)
(* the created_at / updated_at timestamps are read by no operation and are *)
(* left out.                                                               *)
(***************************************************************************)
EXTENDS Integers, Sequences, FiniteSets, TLC

VARIABLES
    projects,           \* rows of table projects
    project_tables,     \* rows of table project_tables
    sensitive_columns,  \* rows of table sensitive_columns
    files,              \* the export directory: prefix -> the two JSON documents
    last,               \* the last ConfigManager call, its arguments and outcome
    cloned,             \* history: <<source id, clone id>> of each clone_project call
    nops,               \* number of ConfigManager calls made so far
    sessions,           \* the open Session of each concurrent caller of save_project_state
    commits,            \* the concurrent calls that have ended, in the order they ended
    SURNAMES,           \* data_anonymizer.SURNAMES
    GIVEN_NAMES,        \* data_anonymizer.GIVEN_NAMES
    hashkey,            \* the key of str hashing this process drew at start-up
    value,              \* the value handed to an anonymization function
    seed,               \* the seed handed with it
    result,             \* the function last called and what came of the call
    previous,           \* what the last call came to in the process run before this one
    df,                 \* the chunk handed to apply_anonymization, and its table
    applied,            \* what apply_anonymization made of it
    pc,                 \* where run_replication stands
    project_id,         \* run_replication's project_id (0 before the first choice)
    selected_tables,    \* run_replication's selected_tables
    SENSITIVE_COLUMNS,  \* db_replicator.SENSITIVE_COLUMNS
    LARGE_TABLE_FILTERS, \* db_replicator.LARGE_TABLE_FILTERS
    engines,            \* "real" with both connections, "demo" without
    table_index,        \* position of the replication loop in selected_tables
    attempted,          \* the tables the replication loop has started, in order
    failed_tables,      \* the tables whose processing logged an error
    target,             \* chunks appended to each table of the target database
    completed,          \* the end-of-run report has been logged
    rounds              \* passes through the selection loop so far

store_vars == <<projects, project_tables, sensitive_columns, files, last, cloned, nops,
                sessions, commits>>

anon_vars == <<SURNAMES, GIVEN_NAMES, hashkey, value, seed, result, previous, df, applied>>

run_vars == <<pc, project_id, selected_tables, SENSITIVE_COLUMNS, LARGE_TABLE_FILTERS,
              engines, table_index, attempted, failed_tables, target, completed, rounds>>

vars == <<store_vars, anon_vars, run_vars>>

-----------------------------------------------------------------------------
(* Bounds and input domains *)

MaxOps == 3

MaxFileOps == 5

None == "<None>"

EmptyMap == <<>>

Default == <<"D", "e", "f", "a", "u", "l", "t">>

Names == {Default, <<"P", " ", "2">>}

NameSources == {[type |-> "DEFAULT", value |-> None],
                [type |-> "DB", value |-> "EMP_DATA.emp_name"]}

Tables == {"T1", "T2"}

Selections == {{}, {"T1"}, {"T2"}}

FilterMaps == {EmptyMap, "T1" :> "f", "T2" :> ""}

\* The names apply_anonymization can resolve: the functions imported from
\* data_anonymizer into the module's globals.
Registry == {"obfuscate_name", "anonymize_id", "obfuscate_address",
             "obfuscate_spouse_name", "obfuscate_phone", "clear_content"}

RuleMaps ==
    {EmptyMap,
     "T1" :> ("emp_name" :> <<"obfuscate_name", "emp_no">>),
     "T1" :> ("id_no" :> <<"mask_everything", None>>),
     ("T1" :> ("emp_name" :> <<"clear_content", None>>))
        @@ ("T2" :> ("emp_name" :> <<"obfuscate_name">>)),
     "T2" :> EmptyMap}

\* The smaller inputs of the specification with several projects
StoreSelections == {{}, {"T1"}}

StoreFilterMaps == {EmptyMap, "T1" :> "f", "T2" :> "g"}

StoreRuleMaps == {EmptyMap, "T1" :> ("emp_name" :> <<"obfuscate_name", "emp_no">>)}

\* The saves of the specification of export and import
FilesInputs ==
    LET rule == "T1" :> ("emp_name" :> <<"obfuscate_name", "emp_no">>)
    IN  {[selected |-> {},     filters |-> EmptyMap,    sensitive |-> EmptyMap],
         [selected |-> {"T1"}, filters |-> "T1" :> "f", sensitive |-> rule],
         [selected |-> {"T1"}, filters |-> EmptyMap,    sensitive |-> EmptyMap],
         [selected |-> {},     filters |-> "T2" :> "g", sensitive |-> EmptyMap],
         [selected |-> {},     filters |-> "T1" :> "g", sensitive |-> EmptyMap],
         [selected |-> {},     filters |-> EmptyMap,    sensitive |-> rule]}

-----------------------------------------------------------------------------
(* Helpers *)

Get(m, k, d) == IF k \in DOMAIN m THEN m[k] ELSE d

\* Python truthiness of an optional string
Truthy(s) == s # None /\ s # ""

Max(S) == CHOOSE x \in S : \A y \in S : y <= x

\* SQLite assigns an INTEGER PRIMARY KEY the largest rowid in use plus one
NextId(rows) == IF rows = {} THEN 1 ELSE Max({r.id : r \in rows}) + 1

\* All orders in which a Python set may be iterated
Orders(S) ==
    {o \in [1..Cardinality(S) -> S] : \A i, j \in 1..Cardinality(S) : o[i] = o[j] => i = j}

ProjectById(id) == {p \in projects : p.id = id}

TablesOf(tabs, pid) == {pt \in tabs : pt.project_id = pid}

ColumnsOf(cols, ptid) == {sc \in cols : sc.project_table_id = ptid}

-----------------------------------------------------------------------------
(* ConfigManager.get_project_config *)

SelectedOf(tabs, pid) == {pt.table_name : pt \in {x \in TablesOf(tabs, pid) : x.is_selected}}

FiltersOfSelected(tabs, pid) ==
    LET with == {pt \in TablesOf(tabs, pid) : Truthy(pt.filter_clause) /\ pt.is_selected}
    IN  [t \in {pt.table_name : pt \in with} |->
            (CHOOSE pt \in with : pt.table_name = t).filter_clause]

FiltersOf(tabs, pid) ==
    LET with == {pt \in TablesOf(tabs, pid) : Truthy(pt.filter_clause)}
    IN  [t \in {pt.table_name : pt \in with} |->
            (CHOOSE pt \in with : pt.table_name = t).filter_clause]

ScMap(cols, ptid) ==
    LET scs == ColumnsOf(cols, ptid)
    IN  [c \in {sc.column_name : sc \in scs} |->
            LET sc == CHOOSE x \in scs : x.column_name = c
            IN  <<sc.function_name, sc.seed_column>>]

SensitiveOf(tabs, cols, pid) ==
    LET with == {pt \in TablesOf(tabs, pid) : ColumnsOf(cols, pt.id) # {}}
    IN  [t \in {pt.table_name : pt \in with} |->
            ScMap(cols, (CHOOSE pt \in with : pt.table_name = t).id)]

NameSourceOf(projs, pid) ==
    LET p == CHOOSE x \in projs : x.id = pid
    IN  [type |-> p.name_source_type, value |-> p.name_source_value]

get_project_config_defaults(pid) ==
    [selected |-> SelectedOf(project_tables, pid),
     filters |-> FiltersOf(project_tables, pid),
     sensitive |-> SensitiveOf(project_tables, sensitive_columns, pid),
     name_source |-> IF ProjectById(pid) = {} THEN [type |-> "DEFAULT", value |-> None]
                     ELSE NameSourceOf(projects, pid)]

get_project_config(pid) ==
    IF ProjectById(pid) = {}
    THEN [selected |-> {}, filters |-> EmptyMap, sensitive |-> EmptyMap,
          name_source |-> EmptyMap]
    ELSE [selected |-> SelectedOf(project_tables, pid),
          filters |-> FiltersOf(project_tables, pid),
          sensitive |-> SensitiveOf(project_tables, sensitive_columns, pid),
          name_source |-> NameSourceOf(projects, pid)]

\* A caller reads the configuration of a project: the call opens a session,
\* reads, and writes nothing.
read_project_config(pid) ==
    /\ last' = [op |-> "get", pid |-> pid, ok |-> TRUE,
                config |-> get_project_config(pid)]
    /\ UNCHANGED <<projects, project_tables, sensitive_columns, files, cloned>>

-----------------------------------------------------------------------------
(* ConfigManager.save_project_state *)

\* session.query(SensitiveColumn).filter_by(project_table_id=pt.id).delete()
DeleteRulesNot(cols, ptid) == cols

DeleteRules(cols, ptid) == {sc \in cols : sc.project_table_id # ptid}

\* The loop body for one involved table, applied to the session's working
\* state w = [ok, tables, columns].  It fails (ok = FALSE) where the code
\* raises: a rule entry that does not unpack into two values, or a NULL
\* function_name / a duplicate (project_table_id, column_name) at flush.
ExistingTableAnyProject(tabs, pid, t) == {pt \in tabs : pt.table_name = t}

ExistingTableNone(tabs, pid, t) == {}

\* existing_tables.get(table_name)
ExistingTable(tabs, pid, t) == {pt \in TablesOf(tabs, pid) : pt.table_name = t}

FilterKept(old, filters, t) ==
    IF t \in DOMAIN filters \/ old = {} THEN Get(filters, t, None)
    ELSE (CHOOSE pt \in old : TRUE).filter_clause

\* pt.filter_clause = filters.get(table_name)
FilterClause(old, filters, t) == Get(filters, t, None)

SaveTable(w, pid, t, selected, filters, rules_by_table) ==
    LET old    == ExistingTable(w.tables, pid, t)
        isNew  == old = {}
        id     == IF isNew THEN NextId(w.tables) ELSE (CHOOSE pt \in old : TRUE).id
        pt     == [id |-> id, project_id |-> pid, table_name |-> t,
                   is_selected |-> (t \in selected),
                   filter_clause |-> FilterClause(old, filters, t)]
        kept   == IF isNew THEN w.columns ELSE DeleteRules(w.columns, id)
        rules  == Get(rules_by_table, t, EmptyMap)
        good   == {c \in DOMAIN rules : Len(rules[c]) = 2}
        added  == {[project_table_id |-> id, column_name |-> c,
                    function_name |-> rules[c][1], seed_column |-> rules[c][2]] :
                   c \in good}
        unpack == good = DOMAIN rules
        notnull == \A sc \in added : sc.function_name # None
        unique == \A sc \in added : \A x \in kept :
                     ~(x.project_table_id = id /\ x.column_name = sc.column_name)
    IN  [ok      |-> unpack /\ notnull /\ unique,
         tables  |-> (w.tables \ old) \cup {pt},
         columns |-> kept \cup added]

RECURSIVE SaveTables(_, _, _, _, _, _)
SaveTables(w, pid, order, selected, filters, rules_by_table) ==
    IF order = <<>> \/ ~w.ok THEN w
    ELSE SaveTables(SaveTable(w, pid, Head(order), selected, filters, rules_by_table),
                    pid, Tail(order), selected, filters, rules_by_table)

AllInvolved(selected, filters, rules_by_table) ==
    selected \cup DOMAIN filters \cup DOMAIN rules_by_table

UnselectNothing(tabs, pid, involved) == tabs

UnselectAndClear(tabs, pid, involved) ==
    {IF pt.project_id = pid /\ pt.table_name \notin involved
        THEN [pt EXCEPT !.is_selected = FALSE, !.filter_clause = None] ELSE pt : pt \in tabs}

UnselectAndDelete(tabs, pid, involved) ==
    {pt \in tabs : ~(pt.project_id = pid /\ pt.table_name \notin involved)}

UnselectAnyProject(tabs, pid, involved) ==
    {IF pt.table_name \notin involved
        THEN [pt EXCEPT !.is_selected = FALSE] ELSE pt : pt \in tabs}

\* The second loop: existing tables that are not involved are only unselected
Unselect(tabs, pid, involved) ==
    {IF pt.project_id = pid /\ pt.table_name \notin involved
        THEN [pt EXCEPT !.is_selected = FALSE] ELSE pt : pt \in tabs}

RolledBackNot(committed, w) == w

\* What session.rollback() leaves persisted: the state at the last commit
RolledBack(committed, w) == committed

\* The outcome of the whole call on the persisted state
SaveResult(pid, selected, filters, rules_by_table, order) ==
    LET committed == [ok |-> TRUE, tables |-> project_tables, columns |-> sensitive_columns]
        involved  == AllInvolved(selected, filters, rules_by_table)
        w  == SaveTables(committed, pid, order, selected, filters, rules_by_table)
    IN  IF ProjectById(pid) = {} THEN [committed EXCEPT !.ok = FALSE]
        ELSE IF ~w.ok THEN [RolledBack(committed, w) EXCEPT !.ok = FALSE]
        ELSE [w EXCEPT !.tables = Unselect(w.tables, pid, involved)]

\* The call repeats the call before it: the same save with the same arguments
Repeats(pid, selected, filters, rules_by_table) ==
    /\ last.op = "save"
    /\ last.pid = pid
    /\ last.selected = selected
    /\ last.filters = filters
    /\ last.sensitive = rules_by_table

save_project_state(pid, selected, filters, rules_by_table) ==
    /\ \E order \in Orders(AllInvolved(selected, filters, rules_by_table)) :
        LET r == SaveResult(pid, selected, filters, rules_by_table, order)
        IN  /\ project_tables' = r.tables
            /\ sensitive_columns' = r.columns
            /\ last' = [op |-> "save", pid |-> pid, ok |-> r.ok,
                        selected |-> selected, filters |-> filters,
                        sensitive |-> rules_by_table,
                        again |-> Repeats(pid, selected, filters, rules_by_table)]
    /\ UNCHANGED <<projects, files, cloned>>

-----------------------------------------------------------------------------
(* ConfigManager.create_project *)

NameTakenNever(projs, pid, name) == FALSE

\* name = Column(String, unique=True): another project than pid has the name
NameTaken(projs, pid, name) == \E p \in projs : p.id # pid /\ p.name = name

create_project(name, src) ==
    /\ LET dup == NameTaken(projects, 0, name)
           row == [id |-> NextId(projects), name |-> name,
                   name_source_type |-> src.type, name_source_value |-> src.value]
       IN  /\ projects' = IF dup THEN projects ELSE projects \cup {row}
           /\ last' = [op |-> "create", pid |-> IF dup THEN 0 ELSE row.id, ok |-> ~dup,
                       name |-> name]
    /\ UNCHANGED <<project_tables, sensitive_columns, files, cloned>>

-----------------------------------------------------------------------------
(* ConfigManager.delete_project: the ORM cascade removes the project's     *)
(* tables and their columns; an absent id is a no-op.                      *)

CascadeColumnsNot(cols, gone) == cols

\* ProjectTable.sensitive_columns, cascade="all, delete-orphan": the rules of
\* the deleted tables go with them
CascadeColumns(cols, gone) == {sc \in cols : sc.project_table_id \notin gone}

delete_project(pid) ==
    LET gone == {pt.id : pt \in TablesOf(project_tables, pid)}
    IN  /\ projects' = projects \ ProjectById(pid)
        /\ project_tables' = project_tables \ TablesOf(project_tables, pid)
        /\ sensitive_columns' = CascadeColumns(sensitive_columns, gone)
        /\ cloned' = {c \in cloned : c[1] # pid /\ c[2] # pid}
        /\ last' = [op |-> "delete", pid |-> pid, ok |-> TRUE,
                     found |-> ProjectById(pid) # {},
                     rules |-> Cardinality(sensitive_columns
                                             \ CascadeColumns(sensitive_columns, gone))]
        /\ UNCHANGED files

-----------------------------------------------------------------------------
(* ConfigManager.update_project_settings: silently nothing for an absent   *)
(* id; the commit raises on a name another project has.                    *)

update_project_settings(pid, name, src) ==
    LET dup == NameTaken(projects, pid, name)
        ok  == ProjectById(pid) = {} \/ ~dup
    IN  /\ projects' = IF ~ok THEN projects
                       ELSE {IF p.id = pid
                               THEN [p EXCEPT !.name = name,
                                              !.name_source_type = src.type,
                                              !.name_source_value = src.value]
                               ELSE p : p \in projects}
        /\ last' = [op |-> "update", pid |-> pid, ok |-> ok]
        /\ UNCHANGED <<project_tables, sensitive_columns, files, cloned>>

-----------------------------------------------------------------------------
(* ConfigManager.clone_project *)

CloneTableSelected(w, new_pid, pt) ==
    LET id == NextId(w.tables)
    IN  [tables  |-> w.tables \cup
                       {[id |-> id, project_id |-> new_pid, table_name |-> pt.table_name,
                         is_selected |-> pt.is_selected,
                         filter_clause |-> IF pt.is_selected THEN pt.filter_clause ELSE None]},
         columns |-> w.columns \cup
                       {[sc EXCEPT !.project_table_id = id] :
                            sc \in IF pt.is_selected THEN ColumnsOf(w.columns, pt.id) ELSE {}}]

\* The rows copied for one source table: new_pt gets the next id and the
\* source's columns are re-keyed to it.
CloneTable(w, new_pid, pt) ==
    LET id == NextId(w.tables)
    IN  [tables  |-> w.tables \cup
                       {[id |-> id, project_id |-> new_pid, table_name |-> pt.table_name,
                         is_selected |-> pt.is_selected, filter_clause |-> pt.filter_clause]},
         columns |-> w.columns \cup
                       {[sc EXCEPT !.project_table_id = id] : sc \in ColumnsOf(w.columns, pt.id)}]

RECURSIVE CloneTables(_, _, _)
CloneTables(w, new_pid, order) ==
    IF order = <<>> THEN w
    ELSE CloneTables(CloneTable(w, new_pid, Head(order)), new_pid, Tail(order))

clone_project(source_project_id, new_name) ==
    LET found  == ProjectById(source_project_id) # {}
        dup    == NameTaken(projects, 0, new_name)
        ok     == found /\ ~dup
        new_id == NextId(projects)
    IN  /\ \E order \in Orders(TablesOf(project_tables, source_project_id)) :
            LET source == CHOOSE p \in projects : p.id = source_project_id
                w == CloneTables([tables |-> project_tables, columns |-> sensitive_columns],
                                 new_id, order)
            IN  IF ok
                THEN /\ projects' = projects \cup
                            {[id |-> new_id, name |-> new_name,
                              name_source_type |-> source.name_source_type,
                              name_source_value |-> source.name_source_value]}
                     /\ project_tables' = w.tables
                     /\ sensitive_columns' = w.columns
                     /\ cloned' = cloned \cup {<<source_project_id, new_id>>}
                ELSE UNCHANGED <<projects, project_tables, sensitive_columns, cloned>>
        /\ last' = [op |-> "clone", pid |-> IF ok THEN new_id ELSE 0, ok |-> ok,
                    source |-> source_project_id, name |-> new_name]
        /\ UNCHANGED files

-----------------------------------------------------------------------------
(* JSON documents: json.dump writes None as null, a str as a string and a  *)
(* list as an array; json.load reads them back.                            *)

ToJson(v) == IF v = None THEN [json |-> "null"] ELSE [json |-> "string", s |-> v]

FromJson(j) == IF j.json = "null" THEN None ELSE j.s

JsonArray(items) == [json |-> "array", items |-> [i \in DOMAIN items |-> ToJson(items[i])]]

\* project.name.replace(" ", "_")
SafeName(name) == [i \in DOMAIN name |-> IF name[i] = " " THEN "_" ELSE name[i]]

-----------------------------------------------------------------------------
(* ConfigManager.export_to_json *)

ExportFilters(pid) ==
    LET f == FiltersOf(project_tables, pid) IN [t \in DOMAIN f |-> ToJson(f[t])]

ExportSensitive(pid) ==
    LET m == SensitiveOf(project_tables, sensitive_columns, pid)
    IN  [t \in DOMAIN m |-> [c \in DOMAIN m[t] |-> JsonArray(m[t][c])]]

export_to_json(pid) ==
    LET found == ProjectById(pid) # {}
    IN  /\ files' = IF ~found THEN files
                    ELSE LET prefix == SafeName((CHOOSE p \in projects : p.id = pid).name)
                         IN  (prefix :> [filters |-> ExportFilters(pid),
                                         sensitive |-> ExportSensitive(pid)]) @@ files
        /\ last' = [op |-> "export", pid |-> pid, ok |-> found]
        /\ UNCHANGED <<projects, project_tables, sensitive_columns, cloned>>

-----------------------------------------------------------------------------
(* ConfigManager.import_from_json *)

LoadFilters(doc) == [t \in DOMAIN doc |-> FromJson(doc[t])]

\* Entries that are not a list of at least two items are dropped
LoadSensitive(doc) ==
    [t \in DOMAIN doc |->
        LET good == {c \in DOMAIN doc[t] :
                        doc[t][c].json = "array" /\ Len(doc[t][c].items) >= 2}
        IN  [c \in good |-> <<FromJson(doc[t][c].items[1]), FromJson(doc[t][c].items[2])>>]]

UpdateKeepingOld(old, new) == old @@ new

UpdateDroppingOld(old, new) == new

\* dict.update: the entries of new replace those of old key by key
Update(old, new) == new @@ old

import_from_json(pid, prefix) ==
    LET present == prefix \in DOMAIN files
        json_filters == IF present THEN LoadFilters(files[prefix].filters) ELSE EmptyMap
        json_sensitive == IF present THEN LoadSensitive(files[prefix].sensitive) ELSE EmptyMap
        nothing == DOMAIN json_filters = {} /\ DOMAIN json_sensitive = {}
        cfg == get_project_config(pid)
        selected == cfg.selected
        filters == Update(cfg.filters, json_filters)
        sensitive == Update(cfg.sensitive, json_sensitive)
    IN  /\ \E order \in Orders(AllInvolved(selected, filters, sensitive)) :
            LET r == SaveResult(pid, selected, filters, sensitive, order)
            IN  /\ project_tables' = IF nothing THEN project_tables ELSE r.tables
                /\ sensitive_columns' = IF nothing THEN sensitive_columns ELSE r.columns
                /\ last' = [op |-> "import", pid |-> pid, ok |-> ~nothing /\ r.ok,
                            prefix |-> prefix]
        /\ UNCHANGED <<projects, files, cloned>>

-----------------------------------------------------------------------------
(* data_anonymizer: values                                                 *)
(*                                                                         *)
(* A Python value is a record: a str with its characters s, an int n, a    *)
(* list of length n, or None.  A character is a one-character string; the  *)
(* name of a city and the decimal numeral of a drawn number are single     *)
(* items of a str.                                                         *)

MaxLen == 10

Chars == {"A", "1"}

Upper == {"A"}

AsciiDigits == {"0", "1", "2", "3", "4", "5", "6", "7", "8", "9"}

\* FW1 stands for the full-width digit one
FullWidth == "FW1" :> "1"

StrVal(s) == [t |-> "str", s |-> s, n |-> 0]

IntVal(n) == [t |-> "int", s |-> <<>>, n |-> n]

ListVal(n) == [t |-> "list", s |-> <<>>, n |-> n]

NoneVal == [t |-> "none", s |-> <<>>, n |-> 0]

FalsyNever(v) == FALSE

\* bool(v) is False
Falsy(v) ==
    \/ v.t = "none"
    \/ v.t = "str" /\ v.s = <<>>
    \/ v.t \in {"int", "list"} /\ v.n = 0

Strings == UNION {[1..n -> Chars] : n \in 0..MaxLen}

Values ==
    {StrVal(s) : s \in Strings}
        \cup {NoneVal, IntVal(0), IntVal(7),
              StrVal(<<"TPE", "A", "1", "1", "A", "FW1">>), StrVal(<<"TPE2", "A", "1">>)}

Seeds == {NoneVal, StrVal(<<"1">>), StrVal(<<"A">>), ListVal(1)}

HashKeys == {0, 1}

\* Excerpts of DEFAULT_SURNAMES, DEFAULT_GIVEN_NAMES and CITY_DISTRICTS; TPE2
\* stands for a city name written with the alternate first character
DEFAULT_SURNAMES == << <<"c">>, <<"l">>, <<"h">> >>

DEFAULT_GIVEN_NAMES == << <<"z", "m">>, <<"s", "f">> >>

CITY_DISTRICTS == "TPE" :> <<"d1", "d2">>

AltCity == "TPE2" :> "TPE"

Roads == <<"r1", "r2">>

-----------------------------------------------------------------------------
(* hash() and random.Random                                                *)

Code(c) == IF c = "A" THEN 3 ELSE IF c = "1" THEN 5 ELSE 7

RECURSIVE StrSum(_)
StrSum(s) == IF s = <<>> THEN 0 ELSE Code(Head(s)) + 2 * StrSum(Tail(s))

\* hash(v): that of a str depends on the process's key, that of an int is the
\* int; a list is unhashable (hashable = FALSE)
Hash(v, key) ==
    [hashable |-> v.t # "list",
     h |-> IF v.t = "str" THEN StrSum(v.s) * (key + 1) + key
           ELSE IF v.t = "int" THEN v.n ELSE 0]

\* str(v) of a seed: the text hashed by obfuscate_phone and obfuscate_address
Str(v) ==
    IF v.t = "str" THEN v
    ELSE IF v.t = "none" THEN StrVal(<<"N", "o", "n", "e">>)
    ELSE IF v.t = "int" THEN StrVal(<<ToString(v.n)>>)
    ELSE StrVal(<<"[", "]">>)

\* The k-th draw of random.Random(x), as a number in lo..hi: a fixed function
\* of x and k standing for the generator's
Draw(x, k, lo, hi) == lo + ((x + 3 * k) % (hi - lo + 1))

Choice(x, k, list) == list[Draw(x, k, 1, Len(list))]

-----------------------------------------------------------------------------
(* The anonymization functions.  Each returns [raised, failed, ret]:       *)
(* raised when an exception reaches the caller, failed when one was caught *)
(* inside, ret the value returned.                                         *)

Returned(v) == [raised |-> FALSE, failed |-> FALSE, ret |-> v]

Fallback(v) == [raised |-> FALSE, failed |-> TRUE, ret |-> v]

Raised == [raised |-> TRUE, failed |-> TRUE, ret |-> NoneVal]

Stars(n) == [i \in 1..n |-> "*"]

\* re.match(r'^[A-Z][0-9]{9}$', s) for a str of 10 characters
MatchesId(s) == s[1] \in Upper /\ \A i \in 2..10 : s[i] \in AsciiDigits

anonymize_id(id_number) ==
    IF Falsy(id_number) THEN Returned(id_number)
    ELSE IF id_number.t \notin {"str", "list"} THEN Raised
    ELSE IF (IF id_number.t = "str" THEN Len(id_number.s) ELSE id_number.n) # 10
         THEN Returned(id_number)
    ELSE IF id_number.t # "str" THEN Raised
    ELSE IF ~MatchesId(id_number.s) THEN Returned(StrVal(Stars(10)))
    ELSE Returned(StrVal(SubSeq(id_number.s, 1, 3) \o Stars(5) \o SubSeq(id_number.s, 9, 10)))

SynthesizeShared(x) ==
    LET y == IF previous.fn = "none" THEN x ELSE x + 1
    IN  StrVal(Choice(y, 1, SURNAMES) \o Choice(y, 2, GIVEN_NAMES))

\* The body of the try of obfuscate_name and obfuscate_spouse_name
Synthesize(x) == StrVal(Choice(x, 1, SURNAMES) \o Choice(x, 2, GIVEN_NAMES))

obfuscate_name(name, emp_no) ==
    IF Falsy(name) \/ Falsy(emp_no) THEN Returned(name)
    ELSE IF Hash(emp_no, hashkey).hashable
         THEN Returned(Synthesize(Hash(emp_no, hashkey).h))
    ELSE IF name.t # "str" THEN Raised
    ELSE IF Len(name.s) > 2
         THEN Fallback(StrVal(<<name.s[1], "O", name.s[Len(name.s)]>>))
    ELSE Fallback(name)

obfuscate_spouse_name(name, emp_no) ==
    IF Falsy(name) \/ Falsy(emp_no) THEN Returned(name)
    ELSE IF Hash(emp_no, hashkey).hashable
         THEN Returned(Synthesize(Hash(emp_no, hashkey).h + 139420))
    ELSE Fallback(name)

\* str.isdigit of one character
IsDigit(c) == c \in AsciiDigits \/ c \in DOMAIN FullWidth

DigitIndices(s) == {i \in 1..Len(s) : IsDigit(s[i])}

LastFiveAll(idx) == idx

\* The last five members of a set of indices
LastFive(idx) == {i \in idx : Cardinality({j \in idx : j > i}) < 5}

obfuscate_phone(phone, sd) ==
    IF Falsy(phone) THEN Returned(phone)
    ELSE IF phone.t # "str" THEN Fallback(phone)
    ELSE LET x == Hash(Str(sd), hashkey).h
             target_indices == LastFive(DigitIndices(phone.s))
             rank(i) == Cardinality({j \in target_indices : j <= i})
         IN  IF Cardinality(DigitIndices(phone.s)) < 5 THEN Returned(phone)
             ELSE Returned(StrVal([i \in 1..Len(phone.s) |->
                        IF i \in target_indices THEN ToString(Draw(x, rank(i), 0, 9))
                                        ELSE phone.s[i]]))

\* address.translate(full_width_map).replace(alternate, canonical)
Normalize(s) ==
    [i \in 1..Len(s) |-> IF s[i] \in DOMAIN FullWidth THEN FullWidth[s[i]]
                         ELSE IF s[i] \in DOMAIN AltCity THEN AltCity[s[i]]
                         ELSE s[i]]

\* re.sub(r'\d+', ...): each maximal run of digits becomes the numeral of the
\* next draw; k counts the runs replaced so far
RECURSIVE SubDigitRuns(_, _, _, _)
SubDigitRuns(s, x, k, inRun) ==
    IF s = <<>> THEN <<>>
    ELSE IF ~IsDigit(Head(s)) THEN <<Head(s)>> \o SubDigitRuns(Tail(s), x, k, FALSE)
    ELSE IF inRun THEN SubDigitRuns(Tail(s), x, k, TRUE)
    ELSE <<ToString(Draw(x, k + 1, 1, 999))>> \o SubDigitRuns(Tail(s), x, k + 1, TRUE)

obfuscate_address(address, sd) ==
    IF Falsy(address) THEN Returned(address)
    ELSE IF address.t # "str" THEN Fallback(address)
    ELSE LET a == Normalize(address.s)
             x == Hash(Str(sd), hashkey).h
         IN  IF a[1] \notin DOMAIN CITY_DISTRICTS
             THEN Returned(StrVal(SubDigitRuns(a, x, 0, FALSE)))
             ELSE Returned(StrVal(<<a[1], Choice(x, 1, CITY_DISTRICTS[a[1]]),
                                    Choice(x, 2, Roads),
                                    ToString(Draw(x, 3, 1, 5)), "sec",
                                    ToString(Draw(x, 4, 1, 100)), "lane",
                                    ToString(Draw(x, 5, 1, 500)), "no">>))

clear_content(val, sd) == Returned(StrVal(<<>>))

-----------------------------------------------------------------------------
(* db_replicator.apply_anonymization.  A chunk is modelled by its columns  *)
(* and one of its rows: the rules are applied row by row, each row by     *)
(* itself.                                                                 *)

NoChunk == [table |-> "", columns |-> {}, row |-> EmptyMap]

NotApplied == [done |-> FALSE]

\* CURRENT_DATE_STR of the day the process started
DATE_SALT == "20261105"

\* f"{row[seed_col]}_{DATE_SALT}"
SeedMaterial(v) == StrVal(Str(v).s \o <<"_", DATE_SALT>>)

\* str.upper of a table name
UpperName(t) == IF t = "t1" THEN "T1" ELSE t

\* func(x), line 1087: the functions that need a second argument raise
\* TypeError
CallUnseeded(func_name, x) ==
    IF func_name = "anonymize_id" THEN anonymize_id(x)
    ELSE IF func_name = "clear_content" THEN clear_content(x, NoneVal)
    ELSE Raised

\* func(row[col], seed), line 1081: anonymize_id takes one argument and
\* raises TypeError
CallSeeded(func_name, x, sd) ==
    IF func_name = "obfuscate_name" THEN obfuscate_name(x, sd)
    ELSE IF func_name = "obfuscate_spouse_name" THEN obfuscate_spouse_name(x, sd)
    ELSE IF func_name = "obfuscate_phone" THEN obfuscate_phone(x, sd)
    ELSE IF func_name = "obfuscate_address" THEN obfuscate_address(x, sd)
    ELSE IF func_name = "clear_content" THEN clear_content(x, sd)
    ELSE Raised

\* The rules of a table that name a seed column the chunk does not have
SeedMissing(chunk, rules) ==
    {c \in DOMAIN rules : Truthy(rules[c][2]) /\ rules[c][2] \notin chunk.columns}

\* One pass of the loop of line 1063 on w = [raised, row]
ApplyRule(w, chunk, col, rule) ==
    IF w.raised \/ col \notin chunk.columns THEN w
    \* globals()[func_name]
    ELSE IF rule[1] \notin Registry THEN [w EXCEPT !.raised = TRUE]
    ELSE IF Truthy(rule[2])
    THEN IF rule[2] \notin chunk.columns THEN w
         ELSE LET out == CallSeeded(rule[1], w.row[col], SeedMaterial(w.row[rule[2]]))
              IN  IF out.raised THEN [w EXCEPT !.raised = TRUE]
                  ELSE [w EXCEPT !.row[col] = out.ret]
    ELSE LET out == CallUnseeded(rule[1], w.row[col])
         IN  IF out.raised THEN [w EXCEPT !.raised = TRUE]
             ELSE [w EXCEPT !.row[col] = out.ret]

RECURSIVE ApplyRules(_, _, _, _)
ApplyRules(w, chunk, rules, order) ==
    IF order = <<>> THEN w
    ELSE ApplyRules(ApplyRule(w, chunk, Head(order), rules[Head(order)]), chunk, rules,
                    Tail(order))

\* sc_map = {k.upper(): k for k in SENSITIVE_COLUMNS.keys()}: the keys that
\* are the chunk's table name in upper case.  Of several the dict keeps the
\* one that comes last in SENSITIVE_COLUMNS, which may be any of them; None
\* when there is none.
TableKeys(chunk, sensitive) ==
    LET keys == {k \in DOMAIN sensitive : UpperName(k) = UpperName(chunk.table)}
    IN  IF keys = {} THEN {None} ELSE keys

\* The rules apply_anonymization finds under table_key
RulesFor(sensitive, table_key) ==
    IF table_key = None THEN EmptyMap ELSE sensitive[table_key]

\* apply_anonymization(df, table_name): raised when an exception leaves the
\* function, row the row of the chunk returned; order is that of rules.items()
apply_anonymization(chunk, sensitive, table_key, order) ==
    ApplyRules([raised |-> FALSE, row |-> chunk.row], chunk, RulesFor(sensitive, table_key),
               order)

-----------------------------------------------------------------------------
(* data_anonymizer: the name corpus                                        *)
(*                                                                         *)
(* A names document is absent, unreadable, or holds two values; a value    *)
(* that is missing or empty is <<>>, one that is not an array is NotAList. *)

NoFile == [exists |-> FALSE, valid |-> FALSE, surnames |-> <<>>, given_names |-> <<>>]

BadFile == [exists |-> TRUE, valid |-> FALSE, surnames |-> <<>>, given_names |-> <<>>]

Doc(sn, gn) == [exists |-> TRUE, valid |-> TRUE, surnames |-> sn, given_names |-> gn]

Pools(sn, gn) == [SURNAMES |-> sn, GIVEN_NAMES |-> gn]

\* A value of the document that is not an array: the number 5, which is
\* true and has no len()
NotAList == << <<"5">> >>

\* Lines 63-66: each array that is present and not empty replaces its pool
Adopted(pools, doc) ==
    Pools(IF doc.surnames # <<>> THEN doc.surnames ELSE pools.SURNAMES,
          IF doc.given_names # <<>> THEN doc.given_names ELSE pools.GIVEN_NAMES)

\* ok is FALSE when the file is missing, when reading it raises, and when
\* len() of line 67 raises on a pool just taken from the document
load_obfuscate_names(pools, doc) ==
    IF doc.exists /\ doc.valid
    THEN LET new == Adopted(pools, doc)
         IN  [ok |-> new.SURNAMES # NotAList /\ new.GIVEN_NAMES # NotAList, pools |-> new]
    ELSE [ok |-> FALSE, pools |-> pools]

\* The order of sorted() on the characters of names
NameChars == <<" ", "w", "x", "y", "z">>

Rank(c) == CHOOSE i \in 1..Len(NameChars) : NameChars[i] = c

RECURSIVE Less(_, _)
Less(a, b) ==
    IF b = <<>> THEN FALSE
    ELSE IF a = <<>> THEN TRUE
    ELSE IF Head(a) # Head(b) THEN Rank(Head(a)) < Rank(Head(b))
    ELSE Less(Tail(a), Tail(b))

\* sorted(list(S))
Sorted(S) ==
    CHOOSE f \in [1..Cardinality(S) -> S] :
        \A i, j \in 1..Cardinality(S) : i < j => Less(f[i], f[j])

\* str.strip() on a name padded with spaces
RECURSIVE Strip(_)
Strip(n) ==
    IF n = <<>> THEN n
    ELSE IF Head(n) = " " THEN Strip(Tail(n))
    ELSE IF n[Len(n)] = " " THEN Strip(SubSeq(n, 1, Len(n) - 1))
    ELSE n

SplittableAny(names) == {n \in names : Len(n) >= 2}

\* The names whose length the split handles
Splittable(names) == {n \in names : Len(n) \in {2, 3, 4}}

SurnameOf(n) == IF Len(n) = 4 THEN SubSeq(n, 1, 2) ELSE SubSeq(n, 1, 1)

GivenOf(n) == IF Len(n) = 4 THEN SubSeq(n, 3, 4) ELSE SubSeq(n, 2, Len(n))

\* db is what the query gives, the distinct values that are not null and at
\* least two characters long: ok = FALSE when connecting or querying raises
init_names_from_database(pools, engine, db) ==
    LET name == {Strip(row) : row \in db.names}
        new_surnames == {SurnameOf(n) : n \in Splittable(name)}
        new_given_names == {GivenOf(n) : n \in Splittable(name)}
    IN  IF engine # "real" \/ ~db.ok \/ new_surnames = {} \/ new_given_names = {}
        THEN [ok |-> FALSE, pools |-> pools]
        ELSE [ok |-> TRUE, pools |-> Pools(Sorted(new_surnames), Sorted(new_given_names))]

\* env holds the document at the configured path, the one at
\* OBFUSCATE_NAME_FILE, and the names of the database
initialize_name_data(pools, engine, source_type, source_value, env) ==
    LET file == load_obfuscate_names(pools,
                    IF Truthy(source_value) THEN env.named ELSE env.cache)
        db == init_names_from_database(pools, engine, env.db)
        \* the pools as the configured source has left them
        left == IF source_type = "FILE" THEN file.pools ELSE pools
        cache == load_obfuscate_names(left, env.cache)
    IN  IF source_type = "FILE" /\ file.ok THEN file.pools
        ELSE IF source_type = "DB" /\ engine = "real" /\ db.ok THEN db.pools
        ELSE cache.pools

NameEnvs ==
    {[named |-> NoFile, cache |-> NoFile, db |-> [ok |-> FALSE, names |-> {}]],
     [named |-> BadFile, cache |-> Doc(<< <<"w">> >>, << <<"x">> >>),
      db |-> [ok |-> TRUE, names |-> {<<"w", "x">>, <<"y", "z", "w">>}]],
     [named |-> Doc(<< <<"y">> >>, <<>>), cache |-> Doc(<< <<"w">> >>, <<>>),
      db |-> [ok |-> TRUE, names |-> {<<"w", "x", "y", "z", "w">>}]]}

-----------------------------------------------------------------------------
(* db_replicator.run_replication                                           *)

MaxRounds == 3

MaxChunks == 2

Back == [kind |-> "back", tables |-> <<>>]

Nothing == [kind |-> "none", tables |-> <<>>]

List(tables) == [kind |-> "list", tables |-> tables]

\* The lists the table selector can hand back on confirmation
TableLists == {<<"T1">>, <<"T2">>, <<"T1", "T2">>, <<"T2", "T1">>}

Range(seq) == {seq[i] : i \in DOMAIN seq}

\* Lines 1096-1139: the project selector, the project's configuration, the
\* connections and the name corpus; choice 0 is a selector left with no project
OpenProject(choice, conn, env) ==
    /\ pc = "project_selector"
    /\ rounds < MaxRounds
    /\ rounds' = rounds + 1
    /\ project_id' = choice
    /\ IF choice = 0
       THEN /\ pc' = "returned"
            /\ UNCHANGED <<SENSITIVE_COLUMNS, LARGE_TABLE_FILTERS, engines,
                           SURNAMES, GIVEN_NAMES>>
       ELSE LET config == get_project_config(choice)
                pools == initialize_name_data(Pools(SURNAMES, GIVEN_NAMES), conn,
                             config.name_source.type, config.name_source.value, env)
            IN  /\ pc' = "table_selector"
                /\ SENSITIVE_COLUMNS' = config.sensitive
                /\ LARGE_TABLE_FILTERS' = config.filters
                /\ engines' = conn
                /\ SURNAMES' = pools.SURNAMES
                /\ GIVEN_NAMES' = pools.GIVEN_NAMES
    /\ UNCHANGED <<store_vars, hashkey, value, seed, result, previous, df, applied,
                   selected_tables,
                   table_index, attempted, failed_tables, target, completed>>

\* Lines 1140-1145: the table selector is left by action_back_to_project
BackToProject ==
    /\ pc = "table_selector"
    /\ selected_tables' = Back
    /\ pc' = "project_selector"
    /\ UNCHANGED <<store_vars, anon_vars, project_id, SENSITIVE_COLUMNS,
                   LARGE_TABLE_FILTERS, engines, table_index, attempted,
                   failed_tables, target, completed, rounds>>

\* Lines 1140-1149: the table selector is quit with no result
QuitSelector ==
    /\ pc = "table_selector"
    /\ selected_tables' = Nothing
    /\ pc' = "returned"
    /\ UNCHANGED <<store_vars, anon_vars, project_id, SENSITIVE_COLUMNS,
                   LARGE_TABLE_FILTERS, engines, table_index, attempted,
                   failed_tables, target, completed, rounds>>

\* action_initiate_confirm: the checked tables are saved with the project's
\* filters and rules as the selector loaded them, then the dialog is answered
InitiateConfirm(tables, is_confirmed) ==
    /\ pc = "table_selector"
    /\ LET config == get_project_config(project_id)
       IN  save_project_state(project_id, Range(tables), config.filters, config.sensitive)
    /\ IF is_confirmed
       \* app.run() returns the list; neither `continue` nor `return` is taken
       \* and the while loop of line 1094 starts over
       THEN selected_tables' = List(tables) /\ pc' = "project_selector"
       ELSE UNCHANGED <<selected_tables, pc>>
    /\ UNCHANGED <<nops, sessions, commits, anon_vars, project_id, SENSITIVE_COLUMNS,
                   LARGE_TABLE_FILTERS,
                   engines, table_index, attempted, failed_tables, target, completed,
                   rounds>>

\* Lines 1160-1207: one pass of the replication loop.  The source holds
\* nchunks chunks of the table; failure.phase is "none", or the step that
\* raises while chunk failure.chunk is being handled ("count" raises before
\* any chunk).  No statement of run_replication leads to this loop: the while
\* loop of line 1094 is left only by the two return statements.
Failures ==
    [phase : {"none", "count"}, chunk : {1}]
        \cup [phase : {"read", "transform", "write"}, chunk : 1..MaxChunks]

Appended(nchunks, failure) ==
    IF engines # "real" \/ failure.phase = "count" THEN 0
    ELSE IF failure.phase = "none" \/ failure.chunk > nchunks THEN nchunks
    ELSE failure.chunk - 1

Fails(nchunks, failure) ==
    /\ engines = "real"
    /\ failure.phase # "none"
    /\ failure.phase = "count" \/ failure.chunk <= nchunks

ProcessTable(nchunks, failure) ==
    /\ pc = "replicating"
    /\ table_index <= Len(selected_tables.tables)
    /\ LET table == selected_tables.tables[table_index]
       IN  /\ attempted' = Append(attempted, table)
           /\ target' = [target EXCEPT ![table] = @ + Appended(nchunks, failure)]
           /\ failed_tables' = IF Fails(nchunks, failure) THEN failed_tables \cup {table}
                                                          ELSE failed_tables
    /\ table_index' = table_index + 1
    /\ UNCHANGED <<store_vars, anon_vars, pc, project_id, selected_tables,
                   SENSITIVE_COLUMNS, LARGE_TABLE_FILTERS, engines, completed, rounds>>

\* Line 1209
Complete ==
    /\ pc = "replicating"
    /\ table_index > Len(selected_tables.tables)
    /\ completed' = TRUE
    /\ pc' = "returned"
    /\ UNCHANGED <<store_vars, anon_vars, project_id, selected_tables, SENSITIVE_COLUMNS,
                   LARGE_TABLE_FILTERS, engines, table_index, attempted, failed_tables,
                   target, rounds>>

-----------------------------------------------------------------------------
(* Specifications *)

\* The store after start-up on a fresh directory: ConfigManager() creates the
\* empty schema and migrate_json_if_needed() creates the Default project.
-----------------------------------------------------------------------------
(* save_project_state called by two callers at once.  Each call has its    *)
(* own Session on the one SQLite file.  The reads of lines 167-172 take no *)
(* lock that outlasts them, so the other call may commit between a call's  *)
(* reads and its writes; the writes of lines 184-224 are flushed and       *)
(* committed under SQLite's single write lock, one call at a time.  The    *)
(* unit of work writes, for a row it loaded, only the attributes whose new *)
(* value differs from the loaded one.                                       *)

\* The callers that may hold a Session of their own at the same time
Callers == {"a", "b"}

\* No Session open
Closed == [pc |-> "closed"]

\* The arguments of the concurrent calls: all of them are saved without
\* error by a call that runs alone
SessionArgs ==
    [selected : {{}, {"T1"}},
     filters : {EmptyMap, "T1" :> "f"},
     sensitive : {EmptyMap,
                  "T1" :> ("emp_name" :> <<"obfuscate_name", "emp_no">>),
                  "T1" :> ("id_no" :> <<"anonymize_id", None>>)}]

\* The loop body for one involved table in a Session that loaded the rows
\* `existing`, applied to the database as it is when the Session writes
FlushTable(w, existing, pid, t, selected, filters, rules_by_table) ==
    LET old    == {pt \in existing : pt.table_name = t}
        isNew  == old = {}
        loaded == CHOOSE pt \in old : TRUE
        id     == IF isNew THEN NextId(w.tables) ELSE loaded.id
        now    == {x \in w.tables : x.id = id}
        sel    == t \in selected
        flt    == FilterClause(old, filters, t)
        \* uq_project_table: the INSERT of a name the project has by now
        taken  == isNew /\ \E x \in w.tables : x.project_id = pid /\ x.table_name = t
        \* the UPDATE of a loaded row finds it
        found  == isNew \/ now # {}
        row    == IF isNew \/ now = {}
                  THEN [id |-> id, project_id |-> pid, table_name |-> t,
                        is_selected |-> sel, filter_clause |-> flt]
                  ELSE LET cur == CHOOSE x \in now : TRUE
                       IN  [cur EXCEPT
                              !.is_selected = IF sel # loaded.is_selected THEN sel ELSE @,
                              !.filter_clause = IF flt # loaded.filter_clause THEN flt ELSE @]
        kept   == IF isNew THEN w.columns ELSE DeleteRules(w.columns, id)
        rules  == Get(rules_by_table, t, EmptyMap)
        good   == {c \in DOMAIN rules : Len(rules[c]) = 2}
        added  == {[project_table_id |-> id, column_name |-> c,
                    function_name |-> rules[c][1], seed_column |-> rules[c][2]] :
                   c \in good}
        unpack == good = DOMAIN rules
        notnull == \A sc \in added : sc.function_name # None
        unique == \A sc \in added : \A x \in kept :
                     ~(x.project_table_id = id /\ x.column_name = sc.column_name)
    IN  [ok      |-> ~taken /\ found /\ unpack /\ notnull /\ unique,
         tables  |-> (w.tables \ now) \cup {row},
         columns |-> kept \cup added]

RECURSIVE FlushTables(_, _, _, _, _, _, _)
FlushTables(w, existing, pid, order, selected, filters, rules_by_table) ==
    IF order = <<>> \/ ~w.ok THEN w
    ELSE FlushTables(FlushTable(w, existing, pid, Head(order), selected, filters,
                                rules_by_table),
                     existing, pid, Tail(order), selected, filters, rules_by_table)

\* The second loop in a Session: pt.is_selected = False on the loaded rows
\* that are not involved, written for those that were loaded as selected
FlushUnselect(tabs, existing, involved) ==
    LET cleared == {pt.id : pt \in {x \in existing :
                                       x.table_name \notin involved /\ x.is_selected}}
    IN  {IF pt.id \in cleared THEN [pt EXCEPT !.is_selected = FALSE] ELSE pt : pt \in tabs}

\* What the call of a Session that loaded `existing` makes of the database
\* db = [ok, tables, columns]: its writes committed, or nothing of them
SessionResult(db, existing, pid, call, order) ==
    LET involved == AllInvolved(call.selected, call.filters, call.sensitive)
        w == FlushTables([db EXCEPT !.ok = TRUE], existing, pid, order,
                         call.selected, call.filters, call.sensitive)
    IN  IF ~w.ok THEN [RolledBack(db, w) EXCEPT !.ok = FALSE]
        ELSE [w EXCEPT !.tables = FlushUnselect(w.tables, existing, involved)]

\* Lines 167-172: the Session of caller c loads the project and its tables
BeginSave(c, pid, call) ==
    /\ sessions[c].pc = "closed"
    /\ \A i \in 1..Len(commits) : commits[i].caller # c
    /\ ProjectById(pid) # {}
    /\ sessions' = [sessions EXCEPT ![c] =
                        [pc |-> "loaded", pid |-> pid, call |-> call,
                         existing |-> TablesOf(project_tables, pid)]]
    /\ UNCHANGED <<projects, project_tables, sensitive_columns, files, last, cloned,
                   nops, commits, anon_vars, run_vars>>

\* Lines 184-230: the Session of caller c writes and commits, or rolls back
CommitSave(c) ==
    /\ sessions[c].pc = "loaded"
    /\ LET ses == sessions[c]
           db  == [ok |-> TRUE, tables |-> project_tables, columns |-> sensitive_columns]
       IN  \E order \in Orders(AllInvolved(ses.call.selected, ses.call.filters,
                                            ses.call.sensitive)) :
             LET r == SessionResult(db, ses.existing, ses.pid, ses.call, order)
             IN  /\ project_tables' = r.tables
                 /\ sensitive_columns' = r.columns
                 /\ commits' = Append(commits, [caller |-> c, ok |-> r.ok, pid |-> ses.pid,
                                                call |-> ses.call, before |-> db])
                 /\ last' = [op |-> "save", pid |-> ses.pid, ok |-> r.ok,
                             selected |-> ses.call.selected, filters |-> ses.call.filters,
                             sensitive |-> ses.call.sensitive, again |-> FALSE]
    /\ sessions' = [sessions EXCEPT ![c] = Closed]
    /\ UNCHANGED <<projects, files, cloned, nops, anon_vars, run_vars>>

StoreInit ==
    /\ projects = {[id |-> 1, name |-> Default,
                    name_source_type |-> "DEFAULT", name_source_value |-> None]}
    /\ project_tables = {}
    /\ sensitive_columns = {}
    /\ files = EmptyMap
    /\ last = [op |-> "init", pid |-> 0, ok |-> TRUE]
    /\ cloned = {}
    /\ nops = 0
    /\ sessions = [c \in Callers |-> Closed]
    /\ commits = <<>>

\* data_anonymizer after import, with no function called
AnonInit ==
    /\ SURNAMES = DEFAULT_SURNAMES
    /\ GIVEN_NAMES = DEFAULT_GIVEN_NAMES
    /\ hashkey \in HashKeys
    /\ value = NoneVal
    /\ seed = NoneVal
    /\ result = [fn |-> "none"]
    /\ previous = [fn |-> "none"]
    /\ df = NoChunk
    /\ applied = NotApplied

\* db_replicator after import, run_replication about to start
RunInit ==
    /\ pc = "project_selector"
    /\ project_id = 0
    /\ selected_tables = Nothing
    /\ SENSITIVE_COLUMNS = EmptyMap
    /\ LARGE_TABLE_FILTERS = EmptyMap
    /\ engines = "demo"
    /\ table_index = 1
    /\ attempted = <<>>
    /\ failed_tables = {}
    /\ target = [t \in Tables |-> 0]
    /\ completed = FALSE
    /\ rounds = 0

Init == StoreInit /\ AnonInit /\ hashkey = 0 /\ RunInit

StoredPids == {p.id : p \in projects}

\* Project ids a caller may pass: the stored ones and one that is not stored
Pids == {p.id : p \in projects} \cup {NextId(projects)}

Prefixes == {SafeName(n) : n \in Names}

Tick == nops < MaxOps /\ nops' = nops + 1 /\ UNCHANGED <<sessions, commits, anon_vars, run_vars>>

SaveProjectState ==
    /\ Tick
    /\ \E pid \in Pids, selected \in StoreSelections, filters \in StoreFilterMaps,
          rules \in StoreRuleMaps :
            save_project_state(pid, selected, filters, rules)

CreateProject == Tick /\ \E name \in Names, src \in NameSources : create_project(name, src)

DeleteProject == Tick /\ \E pid \in Pids : delete_project(pid)

UpdateProjectSettings ==
    Tick /\ \E pid \in Pids, name \in Names, src \in NameSources :
                update_project_settings(pid, name, src)

CloneProject == Tick /\ \E pid \in Pids, name \in Names : clone_project(pid, name)

\* The ids a reader may ask for: the stored ones, those of deleted projects
\* and one never given out
ReadPids == 1..NextId(projects)

GetProjectConfig == Tick /\ \E pid \in ReadPids : read_project_config(pid)

ExportToJson == Tick /\ \E pid \in Pids : export_to_json(pid)

ImportFromJson == Tick /\ \E pid \in Pids, prefix \in Prefixes : import_from_json(pid, prefix)

Next ==
    \/ SaveProjectState
    \/ CreateProject
    \/ DeleteProject
    \/ UpdateProjectSettings
    \/ CloneProject
    \/ GetProjectConfig
    \/ ExportToJson
    \/ ImportFromJson

Spec == Init /\ [][Next]_vars

\* Saves on the Default project (and on an id that is not stored), in any
\* number and order
SaveDefault ==
    /\ \E pid \in Pids, selected \in Selections, filters \in FilterMaps, rules \in RuleMaps :
            save_project_state(pid, selected, filters, rules)
    /\ UNCHANGED <<nops, sessions, commits, anon_vars, run_vars>>

NextSave == SaveDefault

SpecSave == Init /\ [][NextSave]_vars

\* Export and import between projects, next to the saves and creations that
\* prepare them
TickFiles == nops < MaxFileOps /\ nops' = nops + 1 /\ UNCHANGED <<sessions, commits, anon_vars, run_vars>>

FilesSave ==
    /\ TickFiles
    /\ \E pid \in StoredPids, in \in FilesInputs :
            save_project_state(pid, in.selected, in.filters, in.sensitive)

FilesCreate ==
    TickFiles /\ \E name \in Names : create_project(name, [type |-> "DEFAULT", value |-> None])

FilesExport == TickFiles /\ \E pid \in StoredPids : export_to_json(pid)

FilesImport == TickFiles /\ \E pid \in Pids, prefix \in Prefixes : import_from_json(pid, prefix)

NextFiles == FilesSave \/ FilesCreate \/ FilesExport \/ FilesImport

SpecFiles == Init /\ [][NextFiles]_vars

\* import_from_json of documents of any content into the Default project,
\* after saves that have given it tables
MaxImportOps == 4

ImportSaves ==
    LET rule == "T1" :> ("emp_name" :> <<"obfuscate_name", "emp_no">>)
    IN  {[selected |-> {"T1", "T2"}, filters |-> "T2" :> "g", sensitive |-> rule],
         [selected |-> {"T2"}, filters |-> "T1" :> "f", sensitive |-> rule],
         [selected |-> {}, filters |-> "T1" :> "" @@ "T2" :> "g", sensitive |-> rule],
         [selected |-> {"T1"}, filters |-> EmptyMap,
          sensitive |-> "T2" :> ("id_no" :> <<"anonymize_id", None>>)]}

\* Documents found under a prefix: a filter document and a PII document
ImportDocs ==
    LET arr(items) == [json |-> "array", items |-> items]
        str(x) == [json |-> "string", s |-> x]
        null == [json |-> "null"]
    IN  {[filters |-> "T1" :> str("g"), sensitive |-> EmptyMap],
         [filters |-> EmptyMap,
          sensitive |-> "T1" :> ("id_no" :> arr(<<str("anonymize_id"), null>>))],
         [filters |-> "T2" :> null, sensitive |-> "T2" :> EmptyMap],
         [filters |-> EmptyMap,
          sensitive |-> "T1" :> ("emp_name" :> arr(<<str("obfuscate_name")>>))],
         [filters |-> EmptyMap, sensitive |-> "T1" :> ("emp_name" :> str("obfuscate_name"))],
         [filters |-> EmptyMap, sensitive |-> EmptyMap],
         [filters |-> "T1" :> str("h"),
          sensitive |-> "T2" :> ("id_no" :> arr(<<null, str("emp_no")>>))]}

TickImport == nops < MaxImportOps /\ nops' = nops + 1 /\ UNCHANGED <<sessions, commits, anon_vars, run_vars>>

ImportSave ==
    /\ TickImport
    /\ \E in \in ImportSaves : save_project_state(1, in.selected, in.filters, in.sensitive)

\* The operator puts the two documents in the input directory
ImportPut ==
    /\ TickImport
    /\ \E doc \in ImportDocs : files' = (Default :> doc) @@ files
    /\ last' = [op |-> "put"]
    /\ UNCHANGED <<projects, project_tables, sensitive_columns, cloned>>

ImportRun == TickImport /\ \E pid \in Pids : import_from_json(pid, Default)

NextImport == ImportSave \/ ImportPut \/ ImportRun

SpecImport == Init /\ [][NextImport]_vars

\* The anonymization functions called on any value and seed
InitAnon ==
    /\ StoreInit
    /\ SURNAMES = DEFAULT_SURNAMES
    /\ GIVEN_NAMES = DEFAULT_GIVEN_NAMES
    /\ hashkey \in HashKeys
    /\ value \in Values
    /\ seed \in Seeds
    /\ result = [fn |-> "none"]
    /\ previous = [fn |-> "none"]
    /\ df = NoChunk
    /\ applied = NotApplied
    /\ RunInit

anon_inputs == <<SURNAMES, GIVEN_NAMES, hashkey, value, seed, previous, df, applied>>

CallObfuscateName ==
    /\ result' = [fn |-> "obfuscate_name", out |-> obfuscate_name(value, seed)]
    /\ UNCHANGED <<store_vars, anon_inputs, run_vars>>

CallAnonymizeId ==
    /\ result' = [fn |-> "anonymize_id", out |-> anonymize_id(value)]
    /\ UNCHANGED <<store_vars, anon_inputs, run_vars>>

CallObfuscateSpouseName ==
    /\ result' = [fn |-> "obfuscate_spouse_name", out |-> obfuscate_spouse_name(value, seed)]
    /\ UNCHANGED <<store_vars, anon_inputs, run_vars>>

CallObfuscatePhone ==
    /\ result' = [fn |-> "obfuscate_phone", out |-> obfuscate_phone(value, seed)]
    /\ UNCHANGED <<store_vars, anon_inputs, run_vars>>

CallObfuscateAddress ==
    /\ result' = [fn |-> "obfuscate_address", out |-> obfuscate_address(value, seed)]
    /\ UNCHANGED <<store_vars, anon_inputs, run_vars>>

CallClearContent ==
    /\ result' = [fn |-> "clear_content", out |-> clear_content(value, seed)]
    /\ UNCHANGED <<store_vars, anon_inputs, run_vars>>

NextAnon ==
    \/ CallObfuscateName
    \/ CallAnonymizeId
    \/ CallObfuscateSpouseName
    \/ CallObfuscatePhone
    \/ CallObfuscateAddress
    \/ CallClearContent

SpecAnon == InitAnon /\ [][NextAnon]_vars

\* The same call made by one run of the program and then by the next: the
\* process ends, and a new one imports the modules and hashes str under its
\* own key
RestartValues ==
    {StrVal(<<"A", "1", "A">>), StrVal(<<"1", "1", "A", "1", "1", "1", "1">>),
     StrVal(<<"TPE", "A", "1">>), StrVal(<<"A", "1", "1", "A", "1">>)}

InitRestart ==
    /\ StoreInit
    /\ AnonInit
    /\ RunInit

ReadRow ==
    /\ result.fn = "none"
    /\ value = NoneVal
    /\ value' \in RestartValues
    /\ seed' \in {sd \in Seeds : sd.t = "str"}
    /\ UNCHANGED <<store_vars, SURNAMES, GIVEN_NAMES, hashkey, result, previous, df, applied,
                   run_vars>>

Restart ==
    /\ result.fn # "none"
    /\ previous.fn = "none"
    /\ previous' = result
    /\ result' = [fn |-> "none"]
    /\ hashkey' \in HashKeys
    /\ SURNAMES' = DEFAULT_SURNAMES
    /\ GIVEN_NAMES' = DEFAULT_GIVEN_NAMES
    /\ UNCHANGED <<store_vars, value, seed, df, applied, run_vars>>

NextRestart == ReadRow \/ NextAnon \/ Restart

SpecRestart == InitRestart /\ [][NextRestart]_vars

\* run_replication from its first line
RunOpenProject ==
    \E choice \in StoredPids \cup {0}, conn \in {"real", "demo"}, env \in NameEnvs :
        OpenProject(choice, conn, env)

RunInitiateConfirm ==
    \E tables \in TableLists, is_confirmed \in BOOLEAN : InitiateConfirm(tables, is_confirmed)

NextRun == RunOpenProject \/ BackToProject \/ QuitSelector \/ RunInitiateConfirm

SpecRun == Init /\ [][NextRun]_vars

\* The functions called again and again within one run, on a name corpus
\* that initialization has left in place
TwiceValues ==
    {NoneVal, IntVal(7), StrVal(<<"A", "A", "1">>),
     StrVal(<<"1", "1", "A", "1", "1", "1", "1">>),
     StrVal(<<"A", "1", "1", "1", "1", "1", "1", "1", "1", "1">>),
     StrVal(<<"TPE", "A", "1", "1", "A", "FW1">>), StrVal(<<"A", "1", "1", "A", "1">>)}

InitTwice ==
    /\ StoreInit
    /\ RunInit
    /\ \E pools \in {Pools(DEFAULT_SURNAMES, DEFAULT_GIVEN_NAMES),
                      Pools(<< <<"w">>, <<"y">> >>, << <<"x">>, <<"z", "w">> >>)} :
          SURNAMES = pools.SURNAMES /\ GIVEN_NAMES = pools.GIVEN_NAMES
    /\ hashkey \in HashKeys
    /\ value \in TwiceValues
    /\ seed \in Seeds
    /\ result = [fn |-> "none"]
    /\ previous = [fn |-> "none"]
    /\ df = NoChunk
    /\ applied = NotApplied

\* The outcome of the last call is kept with its arguments for comparison
KeepResult ==
    /\ result.fn # "none"
    /\ previous' = [fn |-> result.fn, out |-> result.out, value |-> value, seed |-> seed]
    /\ UNCHANGED <<store_vars, SURNAMES, GIVEN_NAMES, hashkey, value, seed, result, df, applied,
                   run_vars>>

\* The next row brings another value and seed
NextArguments ==
    /\ result.fn # "none"
    /\ value' \in TwiceValues
    /\ seed' \in Seeds
    /\ result' = [fn |-> "none"]
    /\ UNCHANGED <<store_vars, SURNAMES, GIVEN_NAMES, hashkey, previous, df, applied, run_vars>>

NextTwice == NextAnon \/ KeepResult \/ NextArguments

SpecTwice == InitTwice /\ [][NextTwice]_vars

\* The three functions of the name corpus called on any document and any
\* result of the query, one call after the other
NamesDocs ==
    {NoFile, BadFile,
     Doc(<< <<"w">>, <<"y">> >>, << <<"x">> >>),
     Doc(<< <<"y">> >>, <<>>),
     Doc(<<>>, <<>>),
     Doc(NotAList, << <<"z">> >>)}

NamesQueries ==
    {[ok |-> FALSE, names |-> {}],
     [ok |-> TRUE, names |-> {}],
     [ok |-> TRUE, names |-> {<<"w", "x">>, <<"y", "z", "w">>, <<"w", "z">>}],
     [ok |-> TRUE, names |-> {<<"w", "x", " ">>, <<"y", "z", "w">>}],
     [ok |-> TRUE, names |-> {<<"w", "x", "y", "z">>, <<" ", "x">>, <<"w", "x", "y", "z", "w">>}],
     [ok |-> TRUE, names |-> {<<"w", "x", "y", "z", "w">>}]}

NamesEnvs ==
    [named : NamesDocs,
     cache : {NoFile, Doc(<< <<"w">>, <<"y">> >>, << <<"x">> >>), Doc(NotAList, << <<"z">> >>)},
     db : {[ok |-> FALSE, names |-> {}],
           [ok |-> TRUE, names |-> {<<"w", "x", " ">>, <<"y", "z", "w">>}]}]

CallLoadObfuscateNames ==
    /\ \E doc \in NamesDocs :
          LET r == load_obfuscate_names(Pools(SURNAMES, GIVEN_NAMES), doc)
          IN  /\ SURNAMES' = r.pools.SURNAMES
              /\ GIVEN_NAMES' = r.pools.GIVEN_NAMES
              /\ result' = [fn |-> "load_obfuscate_names", ok |-> r.ok, doc |-> doc,
                            before |-> Pools(SURNAMES, GIVEN_NAMES)]
    /\ UNCHANGED <<store_vars, hashkey, value, seed, previous, df, applied, run_vars>>

CallInitNamesFromDatabase ==
    /\ \E engine \in {"real", "demo"}, db \in NamesQueries :
          LET r == init_names_from_database(Pools(SURNAMES, GIVEN_NAMES), engine, db)
          IN  /\ SURNAMES' = r.pools.SURNAMES
              /\ GIVEN_NAMES' = r.pools.GIVEN_NAMES
              /\ result' = [fn |-> "init_names_from_database", ok |-> r.ok, engine |-> engine,
                            db |-> db, before |-> Pools(SURNAMES, GIVEN_NAMES)]
    /\ UNCHANGED <<store_vars, hashkey, value, seed, previous, df, applied, run_vars>>

CallInitializeNameData ==
    /\ \E engine \in {"real", "demo"}, source_type \in {"DEFAULT", "FILE", "DB"},
          source_value \in {None, "names"}, env \in NamesEnvs :
          LET r == initialize_name_data(Pools(SURNAMES, GIVEN_NAMES), engine, source_type,
                                        source_value, env)
          IN  /\ SURNAMES' = r.SURNAMES
              /\ GIVEN_NAMES' = r.GIVEN_NAMES
              /\ result' = [fn |-> "initialize_name_data", engine |-> engine,
                            source_type |-> source_type, source_value |-> source_value,
                            env |-> env, before |-> Pools(SURNAMES, GIVEN_NAMES)]
    /\ UNCHANGED <<store_vars, hashkey, value, seed, previous, df, applied, run_vars>>

NextNames == CallLoadObfuscateNames \/ CallInitNamesFromDatabase \/ CallInitializeNameData

SpecNames == Init /\ [][NextNames]_vars

\* apply_anonymization called on chunks of any table under any rules
ApplySensitive ==
    {EmptyMap}
        \cup {"T1" :> ("emp_name" :> <<fn, None>>) : fn \in Registry}
        \cup {"T1" :> ("emp_name" :> <<fn, "emp_no">>) : fn \in Registry}
        \cup {"T1" :> ("emp_name" :> <<"obfuscate_name", "emp_no">>
                         @@ "id_no" :> <<"anonymize_id", None>>),
              "T1" :> ("emp_name" :> <<"obfuscate_name", "emp_no">>
                         @@ "id_no" :> <<"obfuscate_phone", None>>),
              "T1" :> ("emp_name" :> <<"mask_everything", "emp_no">>),
              "T1" :> ("id_no" :> <<"mask_everything", None>>),
              ("T1" :> ("emp_name" :> <<"obfuscate_name", "emp_no">>))
                 @@ ("t1" :> ("id_no" :> <<"anonymize_id", None>>))}

Chunks ==
    LET id == StrVal(<<"A", "1", "1", "1", "1", "1", "1", "1", "1", "1">>)
    IN  {[table |-> t, columns |-> {"emp_name", "id_no", "emp_no"},
          row |-> "emp_name" :> n @@ "id_no" :> i @@ "emp_no" :> e] :
            t \in {"T1", "t1", "T2"},
            n \in {StrVal(<<"A", "A", "1">>), StrVal(<<>>), NoneVal},
            i \in {id, StrVal(<<"A", "1">>)},
            e \in {StrVal(<<"1">>), NoneVal}}
        \cup
        {[table |-> t, columns |-> {"emp_name", "id_no"},
          row |-> "emp_name" :> n @@ "id_no" :> i] :
            t \in {"T1", "t1"},
            n \in {StrVal(<<"A", "A", "1">>), NoneVal},
            i \in {id, StrVal(<<"A", "1">>)}}

InitApply ==
    /\ StoreInit
    /\ AnonInit
    /\ pc = "replicating"
    /\ project_id = 1
    /\ selected_tables = Nothing
    /\ SENSITIVE_COLUMNS \in ApplySensitive
    /\ LARGE_TABLE_FILTERS = EmptyMap
    /\ engines = "real"
    /\ table_index = 1
    /\ attempted = <<>>
    /\ failed_tables = {}
    /\ target = [t \in Tables |-> 0]
    /\ completed = FALSE
    /\ rounds = 0

\* Line 1185: the next chunk is read, the first one, the one after a chunk
\* that has been written, or the first of the next table after the except of
\* line 1205
ReadChunk ==
    /\ df = NoChunk \/ (applied.done /\ (applied.raised \/ applied.written))
    /\ df' \in Chunks
    /\ applied' = NotApplied
    /\ UNCHANGED <<store_vars, SURNAMES, GIVEN_NAMES, hashkey, value, seed, result, previous,
                   run_vars>>

\* Line 1187
ApplyAnonymization ==
    /\ df # NoChunk
    /\ ~applied.done
    /\ \E table_key \in TableKeys(df, SENSITIVE_COLUMNS) :
        \E order \in Orders(DOMAIN RulesFor(SENSITIVE_COLUMNS, table_key)) :
          LET r == apply_anonymization(df, SENSITIVE_COLUMNS, table_key, order)
          IN  applied' = [done |-> TRUE, raised |-> r.raised, row |-> r.row,
                          table_key |-> table_key, written |-> FALSE]
    /\ UNCHANGED <<store_vars, SURNAMES, GIVEN_NAMES, hashkey, value, seed, result, previous,
                   df, run_vars>>

\* Line 1195: chunk.to_sql appends the chunk apply_anonymization returned
ToSql ==
    /\ applied.done
    /\ ~applied.raised
    /\ ~applied.written
    /\ applied' = [applied EXCEPT !.written = TRUE]
    /\ UNCHANGED <<store_vars, SURNAMES, GIVEN_NAMES, hashkey, value, seed, result, previous,
                   df, run_vars>>

NextApply == ReadChunk \/ ApplyAnonymization \/ ToSql

SpecApply == InitApply /\ [][NextApply]_vars

\* Two callers save project 1 at once, after at most one save made alone
SessionSetup ==
    /\ nops = 0
    /\ commits = <<>>
    /\ \A c \in Callers : sessions[c].pc = "closed"
    /\ \E call \in SessionArgs :
          save_project_state(1, call.selected, call.filters, call.sensitive)
    /\ nops' = nops + 1
    /\ UNCHANGED <<sessions, commits, anon_vars, run_vars>>

SessionBegin == \E c \in Callers, call \in SessionArgs : BeginSave(c, 1, call)

SessionCommit == \E c \in Callers : CommitSave(c)

NextSessions == SessionSetup \/ SessionBegin \/ SessionCommit

SpecSessions == Init /\ [][NextSessions]_vars

\* import_from_json by one caller while another caller saves.  The import
\* reads the documents and the configuration (lines 374-414) in a Session of
\* get_project_config that is closed when the call returns, and saves in a
\* Session of save_project_state (lines 416-421); each save is taken whole.
MaxRaceOps == 2

RaceDocs ==
    LET str(x) == [json |-> "string", s |-> x]
        arr(items) == [json |-> "array", items |-> items]
        null == [json |-> "null"]
    IN  {[filters |-> "T1" :> str("g"), sensitive |-> EmptyMap],
         [filters |-> EmptyMap,
          sensitive |-> "T1" :> ("id_no" :> arr(<<str("anonymize_id"), null>>))],
         [filters |-> EmptyMap, sensitive |-> EmptyMap]}

RaceArgs ==
    [selected : {{}, {"T2"}, {"T1", "T2"}},
     filters : {EmptyMap, "T2" :> "f"},
     sensitive : {EmptyMap, "T2" :> ("emp_name" :> <<"obfuscate_name", "emp_no">>)}]

\* Before the import: a save made alone, or the documents put in place
RaceSetup ==
    /\ nops < MaxRaceOps
    /\ \A c \in Callers : sessions[c].pc = "closed"
    /\ commits = <<>>
    /\ \/ \E call \in RaceArgs :
             save_project_state(1, call.selected, call.filters, call.sensitive)
       \/ /\ \E doc \in RaceDocs : files' = (Default :> doc) @@ files
          /\ last' = [op |-> "put"]
          /\ UNCHANGED <<projects, project_tables, sensitive_columns, cloned>>
    /\ nops' = nops + 1
    /\ UNCHANGED <<sessions, commits, anon_vars, run_vars>>

\* Lines 374-414: caller c loads the documents, raises if both are empty,
\* and otherwise reads the configuration and merges the documents into it
BeginImport(c, pid, prefix) ==
    LET present == prefix \in DOMAIN files
        json_filters == IF present THEN LoadFilters(files[prefix].filters) ELSE EmptyMap
        json_sensitive == IF present THEN LoadSensitive(files[prefix].sensitive) ELSE EmptyMap
        nothing == DOMAIN json_filters = {} /\ DOMAIN json_sensitive = {}
        cfg == get_project_config(pid)
    IN  /\ \A d \in Callers : sessions[d].pc = "closed"
        /\ commits = <<>>
        /\ last.op # "import"
        /\ IF nothing
           THEN /\ last' = [op |-> "import", pid |-> pid, ok |-> FALSE, prefix |-> prefix]
                /\ UNCHANGED sessions
           ELSE /\ sessions' = [sessions EXCEPT ![c] =
                                  [pc |-> "merged", pid |-> pid, prefix |-> prefix,
                                   selected |-> cfg.selected,
                                   filters |-> Update(cfg.filters, json_filters),
                                   sensitive |-> Update(cfg.sensitive, json_sensitive),
                                   named |-> DOMAIN json_filters \cup DOMAIN json_sensitive]]
                /\ UNCHANGED last
        /\ UNCHANGED <<projects, project_tables, sensitive_columns, files, cloned, nops,
                       commits, anon_vars, run_vars>>

\* Another caller's save_project_state commits while c is between its read
\* and its save
SaveBetween(c, call) ==
    /\ sessions[c].pc = "merged"
    /\ commits = <<>>
    /\ save_project_state(sessions[c].pid, call.selected, call.filters, call.sensitive)
    /\ commits' = Append(commits, [caller |-> CHOOSE d \in Callers : d # c, ok |-> last'.ok,
                                    pid |-> sessions[c].pid, call |-> call])
    /\ UNCHANGED <<nops, sessions, anon_vars, run_vars>>

\* Lines 416-421: caller c saves the merged state
FinishImport(c) ==
    /\ sessions[c].pc = "merged"
    /\ LET ses == sessions[c]
       IN  \E order \in Orders(AllInvolved(ses.selected, ses.filters, ses.sensitive)) :
             LET r == SaveResult(ses.pid, ses.selected, ses.filters, ses.sensitive, order)
             IN  /\ project_tables' = r.tables
                 /\ sensitive_columns' = r.columns
                 /\ last' = [op |-> "import", pid |-> ses.pid, ok |-> r.ok,
                             prefix |-> ses.prefix]
    /\ sessions' = [sessions EXCEPT ![c] = Closed]
    /\ UNCHANGED <<projects, files, cloned, nops, commits, anon_vars, run_vars>>

RaceBegin == BeginImport("a", 1, Default)

RaceSave == \E call \in RaceArgs : SaveBetween("a", call)

RaceFinish == FinishImport("a")

NextRace == RaceSetup \/ RaceBegin \/ RaceSave \/ RaceFinish

SpecRace == Init /\ [][NextRace]_vars

\* The replication loop taken by itself, from line 1151 with any list of
\* tables: the state the selection loop would hand over if it were left
InitLoop ==
    /\ StoreInit
    /\ AnonInit
    /\ pc = "replicating"
    /\ project_id = 1
    /\ selected_tables \in {List(tables) : tables \in TableLists}
    /\ SENSITIVE_COLUMNS = EmptyMap
    /\ LARGE_TABLE_FILTERS = EmptyMap
    /\ engines \in {"real", "demo"}
    /\ table_index = 1
    /\ attempted = <<>>
    /\ failed_tables = {}
    /\ target = [t \in Tables |-> 0]
    /\ completed = FALSE
    /\ rounds = 1

LoopProcessTable == \E nchunks \in 0..MaxChunks, failure \in Failures : ProcessTable(nchunks, failure)

NextLoop == LoopProcessTable \/ Complete

SpecLoop == InitLoop /\ [][NextLoop]_vars

-----------------------------------------------------------------------------
(* Properties of save_project_state, checked under SpecSave *)

Stored(pid, t) == {pt \in TablesOf(project_tables, pid) : pt.table_name = t}

LastInvolved == AllInvolved(last.selected, last.filters, last.sensitive)

SaveSucceeded == last.op = "save" /\ last.ok

\* C1: after a successful save of project p with selection S, every involved
\* table is stored with is_selected = (table in S), every other stored table
\* of p has is_selected = FALSE, and get_project_config(p) returns S as its
\* selected set.
C1_SelectedIsExactlyS ==
    SaveSucceeded =>
        /\ \A t \in LastInvolved :
              /\ Cardinality(Stored(last.pid, t)) = 1
              /\ \A pt \in Stored(last.pid, t) : pt.is_selected = (t \in last.selected)
        /\ \A pt \in TablesOf(project_tables, last.pid) :
              pt.table_name \notin LastInvolved => pt.is_selected = FALSE
        /\ get_project_config(last.pid).selected = last.selected

\* A save that selects one table, involves another only through its rules,
\* and leaves a third stored table out
C1_Witness ==
    /\ SaveSucceeded
    /\ last.selected # {}
    /\ LastInvolved # last.selected
    /\ \E pt \in TablesOf(project_tables, last.pid) : pt.table_name \notin last.selected

\* C2: a save leaves every stored table of p that is not involved in place,
\* with the same filter_clause and the same rules, and unselected.
C2_UninvolvedKept ==
    [][(last'.op = "save" /\ last'.ok) =>
        \A pt \in TablesOf(project_tables, last'.pid) :
            pt.table_name \notin LastInvolved' =>
                /\ [pt EXCEPT !.is_selected = FALSE] \in project_tables'
                /\ ColumnsOf(sensitive_columns', pt.id) = ColumnsOf(sensitive_columns, pt.id)]_vars

\* save(p, [], {}, {}) has left T1 stored with a filter and rules, unselected
C2_Witness ==
    /\ SaveSucceeded
    /\ LastInvolved = {}
    /\ \E pt \in Stored(last.pid, "T1") :
          /\ ~pt.is_selected
          /\ pt.filter_clause = "f"
          /\ ColumnsOf(sensitive_columns, pt.id) # {}

\* C3: after a successful save the stored rules of every involved table are
\* exactly the rules supplied for it: one per supplied column, with the
\* supplied function and seed column, and none when no rules were supplied.
C3_RulesReplaced ==
    SaveSucceeded =>
        \A t \in LastInvolved : \A pt \in Stored(last.pid, t) :
            ScMap(sensitive_columns, pt.id) = Get(last.sensitive, t, EmptyMap)

\* T1 is involved without rules and stored without rules, next to a table
\* that was given rules
C3_Witness ==
    /\ SaveSucceeded
    /\ \E t \in LastInvolved \ DOMAIN last.sensitive :
          \A pt \in Stored(last.pid, t) : ColumnsOf(sensitive_columns, pt.id) = {}
    /\ \E t \in DOMAIN last.sensitive :
          \A pt \in Stored(last.pid, t) : ColumnsOf(sensitive_columns, pt.id) # {}

\* C4: a save that fails leaves the persisted rows as they were.
C4_FailedSaveChangesNothing ==
    [][(last'.op = "save" /\ ~last'.ok) =>
        UNCHANGED <<projects, project_tables, sensitive_columns>>]_vars

\* A save on a stored project failed on a malformed entry of T2 while it
\* also carried new rules for T1, which T1 has not got
C4_Witness ==
    /\ last.op = "save" /\ ~last.ok
    /\ ProjectById(last.pid) # {}
    /\ "T1" \in DOMAIN last.sensitive
    /\ \E pt \in Stored(last.pid, "T1") :
          /\ ColumnsOf(sensitive_columns, pt.id) # {}
          /\ ScMap(sensitive_columns, pt.id) # last.sensitive["T1"]

\* C10: a save given a rule whose function name is not in the registry fails,
\* and no stored rule carries such a name.
C10_UnresolvedNameRejected ==
    /\ \A sc \in sensitive_columns : sc.function_name \in Registry
    /\ (last.op = "save" /\
          \E t \in DOMAIN last.sensitive : \E c \in DOMAIN last.sensitive[t] :
              last.sensitive[t][c][1] \notin Registry)
        => ~last.ok

-----------------------------------------------------------------------------
(* Clone independence, checked under Spec *)

Mutations == {"save", "import", "update", "delete"}

\* C5: once p2 has been cloned from p, a save, import, settings update or
\* delete applied to one of the two leaves the selected set, filter map, rule
\* map and name source of the other unchanged.
C5_CloneIndependent ==
    [][\A c \in cloned : \A i \in {1, 2} :
          (last'.op \in Mutations /\ last'.pid = c[i]) =>
              get_project_config(c[3 - i])' = get_project_config(c[3 - i])]_vars

\* A save on the clone has made its rules differ from those of its source,
\* which still has rules
C5_Witness ==
    /\ SaveSucceeded
    /\ \E c \in cloned :
          /\ last.pid = c[2]
          /\ get_project_config(c[1]).sensitive # EmptyMap
          /\ get_project_config(c[2]).sensitive # get_project_config(c[1]).sensitive
          /\ get_project_config(c[2]).selected # get_project_config(c[1]).selected

-----------------------------------------------------------------------------
(* Export followed by import, checked under SpecFiles *)

ExportOf(pid) == [filters |-> ExportFilters(pid), sensitive |-> ExportSensitive(pid)]

\* An import into a stored project p2 reads the documents export_to_json
\* writes for the stored project p
ImportsExportOf(p) ==
    /\ last'.op = "import"
    /\ last'.pid \in StoredPids
    /\ last'.prefix \in DOMAIN files
    /\ files[last'.prefix] = ExportOf(p)

Persisted(p) ==
    [n |-> Cardinality(TablesOf(project_tables, p)),
     rows |-> {<<pt.table_name, pt.is_selected, pt.filter_clause,
                 ScMap(sensitive_columns, pt.id)>> : pt \in TablesOf(project_tables, p)}]

\* C14: a save that repeats the save just made, with the same arguments,
\* leaves what is persisted for the project as the first one left it.
C14_SaveIdempotent ==
    [][\A p \in Pids : (last'.op = "save" /\ last'.again /\ last'.pid = p) =>
          Persisted(p)' = Persisted(p)]_vars

\* A successful save with a selection, a filter and rules has been repeated
C14_Witness ==
    /\ SaveSucceeded /\ last.again
    /\ last.selected # {} /\ last.filters # EmptyMap /\ last.sensitive # EmptyMap
    /\ Persisted(last.pid).n = 2

\* C15: after a successful save every involved table is stored with the
\* filter the call gives for it, and with no filter when the call gives none,
\* whatever filter it had before.
C15_FilterIsTheOneSupplied ==
    SaveSucceeded =>
        \A t \in LastInvolved :
            /\ Stored(last.pid, t) # {}
            /\ \A pt \in Stored(last.pid, t) :
                  pt.filter_clause = IF t \in DOMAIN last.filters THEN last.filters[t] ELSE None

\* A save has involved T1 through the selection and the rules only and T1 is
\* stored without a filter, while T2, which an earlier save gave a filter, is
\* not involved
C15_Witness ==
    /\ SaveSucceeded
    /\ "T1" \in last.selected /\ "T1" \in DOMAIN last.sensitive
    /\ DOMAIN last.filters = {}
    /\ \E pt \in Stored(last.pid, "T1") : pt.filter_clause = None
    /\ \E pt \in Stored(last.pid, "T2") : pt.filter_clause # None

\* C39 as stated: get_project_config right after a successful save returns
\* for every involved table what was saved: the table is selected exactly
\* when it is in the selection, it has a filter exactly when the call gives
\* it one, and then that one, and it has rules exactly when the call gives
\* it rules, and then those.
C39_ReadAfterWrite ==
    SaveSucceeded =>
        LET cfg == get_project_config(last.pid)
        IN  \A t \in LastInvolved :
                /\ t \in cfg.selected <=> t \in last.selected
                /\ t \in DOMAIN cfg.filters <=> t \in DOMAIN last.filters
                /\ t \in DOMAIN cfg.filters \cap DOMAIN last.filters
                      => cfg.filters[t] = last.filters[t]
                /\ t \in DOMAIN cfg.sensitive <=> t \in DOMAIN last.sensitive
                /\ t \in DOMAIN cfg.sensitive \cap DOMAIN last.sensitive
                      => cfg.sensitive[t] = last.sensitive[t]

\* C39 as the code has it: a filter that is None or the empty string, and a
\* table given no rule at all, are not returned.
C39_ReadAfterWriteOfWhatIsNotEmpty ==
    SaveSucceeded =>
        LET cfg == get_project_config(last.pid)
            filtered == {t \in DOMAIN last.filters : Truthy(last.filters[t])}
            ruled == {t \in DOMAIN last.sensitive : DOMAIN last.sensitive[t] # {}}
        IN  \A t \in LastInvolved :
                /\ t \in cfg.selected <=> t \in last.selected
                /\ t \in DOMAIN cfg.filters <=> t \in filtered
                /\ t \in filtered => cfg.filters[t] = last.filters[t]
                /\ t \in DOMAIN cfg.sensitive <=> t \in ruled
                /\ t \in ruled => cfg.sensitive[t] = last.sensitive[t]

\* A save has given T2 the empty string as filter and T1 a rule and the
\* selection: T2 is stored and comes back without a filter, T1 with its rule
C39_Witness ==
    /\ SaveSucceeded
    /\ "T2" \in DOMAIN last.filters /\ last.filters["T2"] = ""
    /\ Stored(last.pid, "T2") # {}
    /\ "T2" \notin DOMAIN get_project_config(last.pid).filters
    /\ "T1" \in last.selected
    /\ "T1" \in DOMAIN last.sensitive
    /\ get_project_config(last.pid).sensitive = last.sensitive
    /\ get_project_config(last.pid).selected = {"T1"}

-----------------------------------------------------------------------------
(* Properties of the store as a whole, checked under Spec *)

UniqueNames == \A p, q \in projects : p.name = q.name => p = q

UniqueTables ==
    \A pt, qt \in project_tables :
        (pt.project_id = qt.project_id /\ pt.table_name = qt.table_name) => pt = qt

UniqueColumns ==
    \A sc, sd \in sensitive_columns :
        (sc.project_table_id = sd.project_table_id /\ sc.column_name = sd.column_name)
            => sc = sd

\* C16: in every reachable state project names, table names within a project
\* and column names within a table are unique, and an operation that fails
\* leaves the store as it was.
C16_UniquenessKept ==
    /\ [](UniqueNames /\ UniqueTables /\ UniqueColumns)
    /\ [][~last'.ok => UNCHANGED <<projects, project_tables, sensitive_columns>>]_vars

\* A settings update that would have given a second project the name of the
\* first has failed, in a store that holds tables and rules
C16_Witness ==
    /\ last.op = "update" /\ ~last.ok
    /\ Cardinality(projects) = 2
    /\ project_tables # {}
    /\ sensitive_columns # {}

NoConfig ==
    [selected |-> {}, filters |-> EmptyMap, sensitive |-> EmptyMap,
     name_source |-> EmptyMap]

\* The rows a project owns: its own row, its tables, the rules of its tables
Owned(projs, tabs, cols, p) ==
    [project |-> {q \in projs : q.id = p},
     tables  |-> TablesOf(tabs, p),
     columns |-> {sc \in cols : sc.project_table_id \in {pt.id : pt \in TablesOf(tabs, p)}}]

\* C17: after delete_project(p) no row of p, of its tables or of their rules
\* remains and get_project_config(p) is the all-empty result; the rows of every
\* other project are as before; on an absent id nothing changes and the call
\* does not fail.
C17_DeleteCascades ==
    [][\A p \in Pids : (last'.op = "delete" /\ last'.pid = p) =>
          LET gone == {pt.id : pt \in TablesOf(project_tables, p)}
          IN  /\ last'.ok
              /\ {q \in projects' : q.id = p} = {}
              /\ {pt \in project_tables' : pt.project_id = p \/ pt.id \in gone} = {}
              /\ {sc \in sensitive_columns' : sc.project_table_id \in gone} = {}
              /\ get_project_config(p)' = NoConfig
              /\ \A q \in Pids \ {p} :
                    Owned(projects', project_tables', sensitive_columns', q)
                        = Owned(projects, project_tables, sensitive_columns, q)
              /\ {q \in projects : q.id = p} = {} =>
                    UNCHANGED <<projects, project_tables, sensitive_columns>>]_vars

\* A project that had tables with rules has been deleted while another
\* project keeps tables and rules of its own
C17_Witness ==
    /\ last.op = "delete" /\ last.found /\ last.rules > 0
    /\ projects # {} /\ project_tables # {} /\ sensitive_columns # {}

\* C31: create_project with the name of a stored project fails and leaves
\* every project, table and rule as it was; with a name no stored project
\* has it succeeds and adds one project row and nothing else, and the new
\* project has no table.
C31_CreateRefusesDuplicateName ==
    [][\A n \in Names : (last'.op = "create" /\ last'.name = n) =>
          IF \E q \in projects : q.name = n
          THEN /\ ~last'.ok
               /\ UNCHANGED <<projects, project_tables, sensitive_columns>>
          ELSE /\ last'.ok
               /\ projects \subseteq projects'
               /\ Cardinality(projects' \ projects) = 1
               /\ \A q \in projects' \ projects :
                     /\ q.name = n
                     /\ q.id \notin StoredPids
                     /\ \A new \in StoredPids' : new = q.id =>
                           /\ last'.pid = new
                           /\ TablesOf(project_tables', new) = {}
                           /\ get_project_config(new)'.selected = {}
               /\ UNCHANGED <<project_tables, sensitive_columns>>]_vars

\* A create with the name of a stored project has been refused in a store
\* that holds two projects, tables and rules
C31_Witness ==
    /\ last.op = "create" /\ ~last.ok
    /\ \E q \in projects : q.name = last.name
    /\ Cardinality(projects) = 2
    /\ project_tables # {} /\ sensitive_columns # {}

\* C32: get_project_config on an id no stored project has returns the empty
\* selected set, the empty filter map, the empty rule map and the empty name
\* source, and a call of get_project_config changes no row.
C32_AbsentProjectReadsEmpty ==
    /\ [](\A pid \in ReadPids \ StoredPids : get_project_config(pid) = NoConfig)
    /\ []((last.op = "get" /\ last.pid \notin StoredPids) => last.config = NoConfig)
    /\ [][last'.op = "get" =>
              UNCHANGED <<projects, project_tables, sensitive_columns>>]_vars

\* The configuration of a project that has been deleted (its id is below
\* that of a stored project) has been read
C32_Witness ==
    /\ last.op = "get"
    /\ last.pid \notin StoredPids
    /\ last.pid < NextId(projects)
    /\ projects # {}
    /\ last.config = NoConfig

\* C36: a save or an import on project p changes no row of another project:
\* every other project keeps its own row, its tables and their rules, and
\* get_project_config returns for it what it returned before.  Checked
\* under SpecFiles, where saves and imports act on projects that store
\* tables of the same names.
C36_SaveAndImportTouchOnlyTheirProject ==
    [][\A p \in Pids :
          (last'.op \in {"save", "import"} /\ last'.pid = p) =>
              \A q \in StoredPids \ {p} :
                  /\ Owned(projects', project_tables', sensitive_columns', q)
                        = Owned(projects, project_tables, sensitive_columns, q)
                  /\ get_project_config(q)' = get_project_config(q)]_vars

\* An import into one of two projects that store a table of the same name
\* has given that table a filter the other project's table does not have,
\* and the other project's table has its rules
C36_Witness ==
    /\ last.op = "import" /\ last.ok
    /\ \E q \in StoredPids \ {last.pid} :
          \E pt \in TablesOf(project_tables, last.pid), qt \in TablesOf(project_tables, q) :
              /\ pt.table_name = qt.table_name
              /\ Truthy(pt.filter_clause)
              /\ pt.filter_clause # qt.filter_clause
              /\ ColumnsOf(sensitive_columns, qt.id) # {}

\* C37: in every reachable state each table row belongs to a stored project
\* and each rule row to a stored table.
C37_NoOrphans ==
    /\ \A pt \in project_tables : pt.project_id \in StoredPids
    /\ \A sc \in sensitive_columns :
          sc.project_table_id \in {pt.id : pt \in project_tables}

\* A project with rules has been deleted, and the one project left stores
\* as many rules of its own, each under one of its tables
C37_Witness ==
    /\ last.op = "delete" /\ last.found /\ last.rules > 0
    /\ Cardinality(projects) = 1
    /\ Cardinality(sensitive_columns) = last.rules
    /\ \A sc \in sensitive_columns :
          \E pt \in project_tables :
              pt.id = sc.project_table_id /\ pt.project_id \in StoredPids

\* The stored configuration of project p in a database, surrogate ids aside
View(tabs, cols, p) ==
    {<<pt.table_name, pt.is_selected, pt.filter_clause, ScMap(cols, pt.id)>> :
        pt \in TablesOf(tabs, p)}

\* C30: after clone_project(p, n) succeeds the new project has the name n,
\* the name source of p and the configuration of p: the same tables, selected
\* or not, each with the filter and the rules it has in p, and every stored
\* project keeps its rows; the call fails when p is not stored or n is the
\* name of a stored project, and a call that fails changes no row.
C30_CloneCopiesTheProject ==
    [][\A p \in Pids, n \in Names :
          (last'.op = "clone" /\ last'.source = p /\ last'.name = n) =>
              /\ last'.ok <=> (ProjectById(p) # {} /\ \A q \in projects : q.name # n)
              /\ last'.ok =>
                    \A new \in StoredPids' : last'.pid = new =>
                        /\ new \notin StoredPids
                        /\ \E q \in projects', src \in projects :
                              /\ q.id = new /\ src.id = p
                              /\ q.name = n
                              /\ q.name_source_type = src.name_source_type
                              /\ q.name_source_value = src.name_source_value
                        /\ get_project_config(new)' = get_project_config(p)
                        /\ View(project_tables', sensitive_columns', new)
                              = View(project_tables, sensitive_columns, p)
                        /\ \A q \in StoredPids :
                              Owned(projects', project_tables', sensitive_columns', q)
                                  = Owned(projects, project_tables, sensitive_columns, q)
              /\ ~last'.ok => UNCHANGED <<projects, project_tables, sensitive_columns>>]_vars

\* A project has been cloned that has a table which is not selected and has
\* a filter or a rule, and the clone has it too
C30_Witness ==
    /\ last.op = "clone" /\ last.ok
    /\ last.pid \in StoredPids /\ last.source \in StoredPids
    /\ \E pt \in TablesOf(project_tables, last.pid) :
          /\ ~pt.is_selected
          /\ Truthy(pt.filter_clause) \/ ColumnsOf(sensitive_columns, pt.id) # {}
          /\ \E src \in TablesOf(project_tables, last.source) :
                src.table_name = pt.table_name /\ ~src.is_selected

TableNames(tabs, p) == {pt.table_name : pt \in TablesOf(tabs, p)}

\* The rules of a project as <<table, column, function, seed column>>
RulesOf(tabs, cols, p) ==
    {<<x[1].table_name, x[2].column_name, x[2].function_name, x[2].seed_column>> :
        x \in {y \in TablesOf(tabs, p) \X cols : y[2].project_table_id = y[1].id}}

\* The tables the save of this step involves: those of the call's arguments,
\* or for an import those of the merged state it saves
StepInvolved(p) ==
    IF last'.op = "save" /\ last'.pid = p
    THEN AllInvolved(last'.selected, last'.filters, last'.sensitive)
    ELSE IF last'.op = "import" /\ last'.pid = p
    THEN LET cfg == get_project_config(p)
             doc == IF last'.prefix \in DOMAIN files THEN files[last'.prefix]
                    ELSE [filters |-> EmptyMap, sensitive |-> EmptyMap]
         IN  AllInvolved(cfg.selected, Update(cfg.filters, LoadFilters(doc.filters)),
                         Update(cfg.sensitive, LoadSensitive(doc.sensitive)))
    ELSE {}

\* C18: a stored table name leaves a project only when the project is
\* deleted, and a stored rule leaves it only then or in a save (a call of
\* save_project_state, or the one import_from_json makes) that involves the
\* rule's table.
C18_RowsOnlyLeaveByDeleteOrInvolvedSave ==
    [][\A p \in Pids :
          /\ ~(TableNames(project_tables, p) \subseteq TableNames(project_tables', p))
                => (last'.op = "delete" /\ last'.pid = p)
          /\ \A r \in RulesOf(project_tables, sensitive_columns, p)
                        \ RulesOf(project_tables', sensitive_columns', p) :
                \/ last'.op = "delete" /\ last'.pid = p
                \/ r[1] \in StepInvolved(p)]_vars

\* A save has succeeded that left out a stored table with rules, and the
\* table and its rules are still there
C18_Witness ==
    /\ last.op = "save" /\ last.ok
    /\ \E pt \in TablesOf(project_tables, last.pid) :
          /\ pt.table_name \notin LastInvolved
          /\ ColumnsOf(sensitive_columns, pt.id) # {}

-----------------------------------------------------------------------------
(* Properties of concurrent saves, checked under SpecSessions *)

\* The call recorded as commit i, run alone on database db
Alone(db, i, order) ==
    SessionResult(db, TablesOf(db.tables, commits[i].pid), commits[i].pid,
                  commits[i].call, order)

CommitOrders(i) ==
    Orders(AllInvolved(commits[i].call.selected, commits[i].call.filters,
                       commits[i].call.sensitive))

\* C19: when two callers have saved the same project at once, both calls
\* have succeeded and the stored state is the one the two calls leave when
\* run one after the other in the order of their commits.
C19_ConcurrentSavesLastWriterWins ==
    Len(commits) = 2 =>
        /\ commits[1].ok /\ commits[2].ok
        /\ \E o1 \in CommitOrders(1), o2 \in CommitOrders(2) :
              LET s1 == Alone(commits[1].before, 1, o1)
                  s2 == Alone(s1, 2, o2)
              IN  View(project_tables, sensitive_columns, 1) = View(s2.tables, s2.columns, 1)

\* The second half of C19 by itself: the stored state is that of the serial
\* order of the commits
SerialOutcome ==
    (Len(commits) = 2 /\ commits[1].ok /\ commits[2].ok) =>
        \E o1 \in CommitOrders(1), o2 \in CommitOrders(2) :
              LET s1 == Alone(commits[1].before, 1, o1)
                  s2 == Alone(s1, 2, o2)
              IN  View(project_tables, sensitive_columns, 1) = View(s2.tables, s2.columns, 1)

-----------------------------------------------------------------------------
(* Format properties of the anonymization functions, checked under SpecAnon *)

\* The positions of a string that hold a digit with fewer than five digits
\* after it
FinalDigits(s) ==
    {i \in 1..Len(s) : IsDigit(s[i])
        /\ Cardinality({j \in 1..Len(s) : j > i /\ IsDigit(s[j])}) < 5}

\* C24: obfuscate_phone of a string with at least five digits returns a
\* string of the same length that differs from it at most at the last five
\* digit positions, where it holds digits 0-9; any other non-empty value is
\* returned unchanged.
C24_PhoneMaskKeepsFormat ==
    (result.fn = "obfuscate_phone" /\ ~Falsy(value)) =>
        /\ ~result.out.raised
        /\ IF value.t = "str" /\ Cardinality({i \in 1..Len(value.s) : IsDigit(value.s[i])}) >= 5
           THEN /\ result.out.ret.t = "str"
                /\ Len(result.out.ret.s) = Len(value.s)
                /\ \A i \in 1..Len(value.s) :
                      IF i \in FinalDigits(value.s)
                      THEN result.out.ret.s[i] \in AsciiDigits
                      ELSE result.out.ret.s[i] = value.s[i]
           ELSE result.out.ret = value

\* A phone value with a letter and more than five digits has come back with
\* other digits at the end
C24_Witness ==
    /\ result.fn = "obfuscate_phone"
    /\ value.t = "str"
    /\ Cardinality({i \in 1..Len(value.s) : IsDigit(value.s[i])}) > 5
    /\ \E i \in 1..Len(value.s) : ~IsDigit(value.s[i])
    /\ result.out.ret # value

\* The empty string and the absent value
Blank == {StrVal(<<>>), NoneVal}

\* C25: every function returns an empty or absent value unchanged, whatever
\* the seed.
C25_EmptyInEmptyOut ==
    (result.fn # "none" /\ value \in Blank) =>
        ~result.out.raised /\ result.out.ret = value

\* C25 as the code has it: clear_content returns the empty string for both,
\* every other function returns the empty or absent value unchanged.
C25_EmptyInEmptyOutButBlank ==
    (result.fn # "none" /\ value \in Blank) =>
        /\ ~result.out.raised
        /\ result.out.ret = IF result.fn = "clear_content" THEN StrVal(<<>>) ELSE value

\* clear_content has been called on an absent value and a seed
C25_Witness ==
    /\ result.fn = "clear_content"
    /\ value = NoneVal
    /\ seed # NoneVal
    /\ result.out.ret = StrVal(<<>>)

-----------------------------------------------------------------------------
(* Determinism within one run, checked under SpecTwice *)

-----------------------------------------------------------------------------
(* Properties of the name corpus, checked under SpecNames *)

\* A pool names can be drawn from: a list that is not empty
Usable(pool) == pool # <<>> /\ pool # NotAList

\* C27: initialize_name_data returns with a usable corpus, whatever the
\* source, the documents and the database give: when every source fails the
\* pools are those it was called with.
C27_InitializationLeavesUsableCorpus ==
    (result.fn = "initialize_name_data"
        /\ Usable(result.before.SURNAMES) /\ Usable(result.before.GIVEN_NAMES))
            => Usable(SURNAMES) /\ Usable(GIVEN_NAMES)

\* The document has both arrays, present and not empty
Whole(doc) ==
    /\ doc.exists /\ doc.valid
    /\ Usable(doc.surnames) /\ Usable(doc.given_names)

\* C28: load_obfuscate_names succeeds and replaces both pools by the
\* document's arrays when the document has both, present and not empty;
\* otherwise it fails and changes neither pool.
C28_FileAdoptedOnlyAsAWhole ==
    result.fn = "load_obfuscate_names" =>
        IF Whole(result.doc)
        THEN /\ result.ok
             /\ SURNAMES = result.doc.surnames
             /\ GIVEN_NAMES = result.doc.given_names
        ELSE /\ ~result.ok
             /\ Pools(SURNAMES, GIVEN_NAMES) = result.before

\* A pool holds each of its names once, in the order of sorted()
SortedOnce(pool) == \A i, j \in 1..Len(pool) : i < j => Less(pool[i], pool[j])

\* The pools the call leaves when each name gives the fragments of its
\* length: 2 the first character and the second, 3 the first and the last
\* two, 4 the first two and the last two, any other length nothing
SplitByLength(names) ==
    LET surnames == {<<n[1]>> : n \in {m \in names : Len(m) \in {2, 3}}}
                        \cup {<<n[1], n[2]>> : n \in {m \in names : Len(m) = 4}}
        given == {<<n[2]>> : n \in {m \in names : Len(m) = 2}}
                    \cup {<<n[2], n[3]>> : n \in {m \in names : Len(m) = 3}}
                    \cup {<<n[3], n[4]>> : n \in {m \in names : Len(m) = 4}}
    IN  IF surnames # {} /\ given # {}
        THEN /\ result.ok
             /\ {SURNAMES[i] : i \in 1..Len(SURNAMES)} = surnames
             /\ {GIVEN_NAMES[i] : i \in 1..Len(GIVEN_NAMES)} = given
             /\ SortedOnce(SURNAMES) /\ SortedOnce(GIVEN_NAMES)
        ELSE /\ ~result.ok
             /\ Pools(SURNAMES, GIVEN_NAMES) = result.before

\* The rows init_names_from_database has read
RowsRead == IF result.engine = "real" /\ result.db.ok THEN result.db.names ELSE {}

\* C29 as stated: init_names_from_database splits each name the query gives
\* by its length (2 gives 1 + 1, 3 gives 1 + 2, 4 gives 2 + 2, others
\* nothing); with both sets non-empty the pools become the sets, sorted and
\* without duplicates, and otherwise the call fails and leaves both pools as
\* they were.
C29_DatabaseNamesSplitByLength ==
    result.fn = "init_names_from_database" => SplitByLength(RowsRead)

\* C29 as the code has it: the length that decides the split, and the
\* fragments, are those of the name without the spaces around it.
C29_DatabaseNamesSplitByStrippedLength ==
    result.fn = "init_names_from_database"
        => SplitByLength({Strip(row) : row \in RowsRead})

\* The query gave names of lengths 2, 4 and 5, the one of length 2 is a
\* space and a character, and the pools are the fragments of the name of
\* length 4
C29_Witness ==
    /\ result.fn = "init_names_from_database"
    /\ result.ok
    /\ \E n \in result.db.names : Len(n) = 5
    /\ \E n \in result.db.names : Len(n) = 2 /\ Len(Strip(n)) = 1
    /\ SURNAMES = << <<"w", "x">> >>
    /\ GIVEN_NAMES = << <<"y", "z">> >>
    /\ result.before # Pools(SURNAMES, GIVEN_NAMES)

\* C38: in every state the surname pool and the given-name pool are lists
\* that are not empty, so that name synthesis can draw a fragment from each.
C38_PoolsNeverEmpty == Usable(SURNAMES) /\ Usable(GIVEN_NAMES)

\* Neither pool is ever the empty list
PoolsNeverTheEmptyList == SURNAMES # <<>> /\ GIVEN_NAMES # <<>>

-----------------------------------------------------------------------------
(* Properties of import_from_json next to a save, checked under SpecRace *)

\* What is stored for table t of project p: selection, filter and rules
TableView(tabs, cols, p, t) ==
    {x \in View(tabs, cols, p) : x[1] = t}

\* C35: when another caller's save has committed between the import's read
\* and the import's save, the import leaves every table its documents do not
\* name as that save stored it: selection, filter and rules.
C35_ImportKeepsConcurrentSave ==
    [][\A c \in Callers :
          (sessions[c].pc = "merged" /\ sessions'[c].pc = "closed"
              /\ commits # <<>> /\ commits[1].ok /\ last'.ok) =>
                  \A t \in Tables \ sessions[c].named :
                      TableView(project_tables', sensitive_columns', sessions[c].pid, t)
                          = TableView(project_tables, sensitive_columns, sessions[c].pid, t)]_vars

\* The same for an import with no save between its read and its save
ImportAloneKeepsOtherTables ==
    [][\A c \in Callers :
          (sessions[c].pc = "merged" /\ sessions'[c].pc = "closed"
              /\ commits = <<>> /\ last'.ok) =>
                  \A t \in Tables \ sessions[c].named :
                      TableView(project_tables', sensitive_columns', sessions[c].pid, t)
                          = TableView(project_tables, sensitive_columns, sessions[c].pid, t)]_vars

-----------------------------------------------------------------------------
(* Properties of apply_anonymization, checked under SpecApply *)

\* The outcome of apply_anonymization on chunk under the rules without those
\* of the columns in dropped, in some order of the rules
AsWithout(chunk, rules, dropped, w) ==
    LET rest == [c \in DOMAIN rules \ dropped |-> rules[c]]
    IN  \E order \in Orders(DOMAIN rest) :
            ApplyRules([raised |-> FALSE, row |-> chunk.row], chunk, rest, order) = w

\* The rules apply_anonymization has gone through
AppliedRules == RulesFor(SENSITIVE_COLUMNS, applied.table_key)

\* C21: when rules of the chunk's table name a seed column the chunk does
\* not have, the call comes to what it would without those rules: their
\* columns are as read, the other rules are applied, and nothing is raised
\* that the other rules would not raise.
C21_MissingSeedColumnSkipsTheRule ==
    applied.done =>
        LET rules == AppliedRules
            missing == SeedMissing(df, rules)
        IN  missing # {} =>
                AsWithout(df, rules, missing, [raised |-> applied.raised, row |-> applied.row])

\* The same for rules whose function is one of the registry
MissingSeedColumnSkipsRegistryRule ==
    applied.done =>
        LET rules == AppliedRules
            missing == SeedMissing(df, rules)
        IN  (missing # {} /\ \A c \in missing : rules[c][1] \in Registry) =>
                AsWithout(df, rules, missing, [raised |-> applied.raised, row |-> applied.row])

\* A registry rule was skipped for its missing seed column and another rule
\* of the table was applied
RegistryRuleSkipped ==
    /\ applied.done /\ ~applied.raised
    /\ LET rules == AppliedRules
       IN  /\ \E c \in SeedMissing(df, rules) : rules[c][1] \in Registry /\ c \in df.columns
           /\ \E c \in DOMAIN rules : applied.row[c] # df.row[c]

\* The value a rule without seed column gives a column: the function called
\* on the value with no seed material
Unseeded(func_name, x) ==
    IF func_name = "anonymize_id" THEN anonymize_id(x) ELSE CallSeeded(func_name, x, NoneVal)

\* C22: when every rule of the chunk's table is a registry function without
\* seed column, apply_anonymization raises nothing and gives each ruled
\* column the function's value for the row's value and no seed material.
C22_NoSeedColumnNeverFails ==
    applied.done =>
        LET rules == AppliedRules
        IN  (\A c \in DOMAIN rules : rules[c][1] \in Registry /\ ~Truthy(rules[c][2])) =>
                /\ ~applied.raised
                /\ \A c \in DOMAIN rules \cap df.columns :
                      ~Unseeded(rules[c][1], df.row[c]).raised
                          => applied.row[c] = Unseeded(rules[c][1], df.row[c]).ret

\* The rules stored for the chunk's table: those under its name
OwnRules ==
    IF df.table \in DOMAIN SENSITIVE_COLUMNS THEN SENSITIVE_COLUMNS[df.table] ELSE EmptyMap

\* The value a rule gives the column of the chunk's row
RuleValue(c, rule) ==
    IF Truthy(rule[2]) THEN CallSeeded(rule[1], df.row[c], SeedMaterial(df.row[rule[2]]))
    ELSE CallUnseeded(rule[1], df.row[c])

\* The rules of a table that apply to the chunk: their column is in the
\* chunk, and their seed column if they have one
Applicable(rules) ==
    {c \in DOMAIN rules \cap df.columns :
        Truthy(rules[c][2]) => rules[c][2] \in df.columns}

\* C33: a chunk that has been written carries, in every column its table
\* has a rule for (the column, and the seed column if there is one, being in
\* the chunk), the value the rule's function gives; and a chunk on which
\* apply_anonymization raised has not been written.
C33_NoChunkWrittenBeforeItsRules ==
    applied.done =>
        /\ applied.raised => ~applied.written
        /\ applied.written =>
              \A c \in Applicable(OwnRules) :
                  /\ ~RuleValue(c, OwnRules[c]).raised
                  /\ applied.row[c] = RuleValue(c, OwnRules[c]).ret

\* The same when no other key of SENSITIVE_COLUMNS is the table's name in
\* another case
RulesAppliedBeforeWriteUnlessKeysCollide ==
    (applied.done /\ Cardinality(TableKeys(df, SENSITIVE_COLUMNS)) = 1) =>
        /\ applied.raised => ~applied.written
        /\ applied.written =>
              \A c \in Applicable(OwnRules) :
                  /\ ~RuleValue(c, OwnRules[c]).raised
                  /\ applied.row[c] = RuleValue(c, OwnRules[c]).ret

\* A chunk has been written with two of its columns changed by the rules of
\* its table
ChunkWrittenWithRulesApplied ==
    /\ applied.done /\ applied.written
    /\ Cardinality(TableKeys(df, SENSITIVE_COLUMNS)) = 1
    /\ Cardinality({c \in Applicable(OwnRules) : applied.row[c] # df.row[c]}) = 2

-----------------------------------------------------------------------------
(* Properties of import_from_json, checked under SpecImport *)

\* The documents an import step reads
ImportedDoc ==
    IF last'.prefix \in DOMAIN files THEN files[last'.prefix]
    ELSE [filters |-> EmptyMap, sensitive |-> EmptyMap]

\* C13: an import that succeeds leaves the selected set as it was, gives each
\* table named in the filter document the imported filter and each table
\* named in the PII document the imported rules, and leaves the filter and
\* the rules of every other table unchanged; one that fails changes nothing.
C13_ImportFrame ==
    [][\A p \in Pids : (last'.op = "import" /\ last'.pid = p) =>
        LET before == get_project_config(p)
            after == get_project_config(p)'
            json_filters == LoadFilters(ImportedDoc.filters)
            json_sensitive == LoadSensitive(ImportedDoc.sensitive)
        IN  IF ~last'.ok THEN UNCHANGED <<projects, project_tables, sensitive_columns>>
            ELSE /\ after.selected = before.selected
                 /\ \A t \in DOMAIN json_filters :
                        \E pt \in TablesOf(project_tables', p) :
                            pt.table_name = t /\ pt.filter_clause = json_filters[t]
                 /\ \A t \in DOMAIN json_sensitive :
                        \E pt \in TablesOf(project_tables', p) :
                            pt.table_name = t /\ ScMap(sensitive_columns', pt.id) = json_sensitive[t]
                 /\ \A t \in Tables \ DOMAIN json_filters :
                        /\ t \in DOMAIN after.filters <=> t \in DOMAIN before.filters
                        /\ t \in DOMAIN before.filters => after.filters[t] = before.filters[t]
                 /\ \A t \in Tables \ DOMAIN json_sensitive :
                        /\ t \in DOMAIN after.sensitive <=> t \in DOMAIN before.sensitive
                        /\ t \in DOMAIN before.sensitive
                              => after.sensitive[t] = before.sensitive[t]]_vars

\* An import has given T1 a new filter while T1 and T2 stay selected, T2
\* keeps its filter and T1 keeps its rules
C13_Witness ==
    /\ last.op = "import" /\ last.ok
    /\ get_project_config(1).selected = {"T1", "T2"}
    /\ "T1" \in DOMAIN get_project_config(1).filters
    /\ get_project_config(1).filters["T1"] = "g"
    /\ "T2" \in DOMAIN get_project_config(1).filters
    /\ "T1" \in DOMAIN get_project_config(1).sensitive

-----------------------------------------------------------------------------
(* Properties of the anonymization functions, checked under SpecAnon *)

\* C7: anonymize_id returns a str of 10 characters matching the pattern with
\* positions 3 to 7 starred and the rest kept, and returns every other
\* non-empty str as ten stars.
C7_IdMaskFailSafe ==
    (result.fn = "anonymize_id" /\ value.t = "str" /\ value.s # <<>>) =>
        /\ ~result.out.raised
        /\ result.out.ret =
              IF Len(value.s) = 10 /\ MatchesId(value.s)
              THEN StrVal([i \in 1..10 |-> IF i \in 4..8 THEN "*" ELSE value.s[i]])
              ELSE StrVal(Stars(10))

\* C9: no function raises to its caller, and a function that failed inside
\* on a non-empty value does not return that value.
C9_NeverRaisesNeverLeaks ==
    result.fn # "none" =>
        /\ ~result.out.raised
        /\ (result.out.failed /\ ~Falsy(value)) => result.out.ret # value

\* The functions that take seed material
Seeded == {"obfuscate_name", "obfuscate_spouse_name", "obfuscate_phone", "obfuscate_address"}

\* C11: a seeded function called in a second run of the program on the same
\* value and seed, with the same corpus, gives what it gave in the first run.
C11_SameAcrossRuns ==
    (result.fn \in Seeded /\ previous.fn = result.fn) => result.out = previous.out

-----------------------------------------------------------------------------
(* Properties of run_replication, checked under SpecRun *)

\* C8: when the run has ended after the table selector returned a list of
\* tables, each of those tables was attempted exactly once, in order, whatever
\* failed, and the end-of-run report was logged.
C8_EveryTableAttemptedAndReported ==
    (pc = "returned" /\ selected_tables.kind = "list") =>
        /\ attempted = selected_tables.tables
        /\ completed

\* The chunks pd.read_sql yields for a table: one chunk of three rows under
\* a filter, two chunks without
SourceChunks(table, filters) == IF Truthy(Get(filters, table, None)) THEN 1 ELSE 2

\* C23: when a run with both connections has ended after the table selector
\* returned a list of tables, the target holds for each of them the chunks
\* of the source rows that satisfy the table's stored filter, each once.
C23_TargetHoldsTheFilteredRows ==
    (pc = "returned" /\ selected_tables.kind = "list" /\ engines = "real") =>
        \A i \in 1..Len(selected_tables.tables) :
            target[selected_tables.tables[i]]
                = SourceChunks(selected_tables.tables[i],
                               get_project_config(project_id).filters)

\* C20: the tables the replication loop has started are, in order, the first
\* tables of the selection, one for each pass of the loop made so far.  No
\* run of run_replication reaches the loop, so under SpecRun this says of
\* every state that nothing has been started.
C20_TablesInSelectionOrder ==
    selected_tables.kind = "list" =>
        /\ table_index - 1 <= Len(selected_tables.tables)
        /\ attempted = SubSeq(selected_tables.tables, 1, table_index - 1)

\* C34: a pass of the replication loop starts the next table of the
\* selection and no other, takes no chunk away from the target, and appends
\* nothing to a table started before; a pass that fails leaves in the target
\* the chunks appended before the failure.  No run of run_replication
\* reaches the loop, so under SpecRun no step is such a pass.
C34_FailedTableKeepsItsChunks ==
    [][attempted' # attempted =>
          /\ \E t \in Tables :
                /\ attempted' = Append(attempted, t)
                /\ t = selected_tables.tables[table_index]
                /\ \A u \in Tables \ {t} : target'[u] = target[u]
          /\ \A t \in Tables : target'[t] >= target[t]
          /\ table_index' = table_index + 1]_vars

\* The replication loop is never entered
LoopNeverEntered == pc # "replicating" /\ attempted = <<>> /\ ~completed

\* C12: when the table selector is left with a confirmed list of tables, the
\* run goes on to the replication loop and not back to project selection.
C12_ConfirmedSelectionIsReplicated ==
    [][(pc = "table_selector" /\ pc' # "table_selector" /\ selected_tables'.kind = "list")
          => pc' = "replicating"]_vars

====
